---------------------------- MODULE Spec2Model ----------------------------
(***************************************************************************)
(* EPUB-AI-Translator: the segment / chunk / codec / orchestration         *)
(* pipeline of src/epub.py as state machines.                              *)
(*                                                                         *)
(* Strings are sequences of one-character strings; a segment is a record   *)
(* [index, original_text]; a chunk is a sequence of segments.              *)
(***************************************************************************)
EXTENDS Integers, Sequences, FiniteSets, TLC

VARIABLES
    pText,      \* parse_translated_chunk: the translated_text argument
    pChunk,     \* parse_translated_chunk: the chunk argument
    pResult,    \* parse_translated_chunk: the returned mapping
    pPc,        \* "idle" | "call" | "returned"
    cSegments,  \* chunk_segments: the segments argument
    cMaxChars,  \* chunk_segments: the max_chars argument
    cChunks,    \* chunk_segments: the returned list of chunks
    cPc,        \* "idle" | "call" | "returned"
    eInput,     \* the tree under body as the pipeline was given it
    eTree,      \* extract_segments: the tree under body, mutated in place
    eSnapshot,  \* extract_segments: list(body.descendants)
    ePos,       \* extract_segments: position of the loop in the snapshot
    eSegments,  \* extract_segments: segments
    eIndex,     \* extract_segments: index
    ePc,        \* "idle" | "simplify" | "call" | "loop" | "returned"
    fSegments,  \* translate_and_inject: segments, with translated_text
    fMaxChars,  \* translate_and_inject: max_chars
    fChunks,    \* translate_and_inject: chunks
    fPos,       \* translate_and_inject: position of the loop in chunks
    fPrev,      \* translate_and_inject: prev_context
    fCalls,     \* the calls of translate_fn made so far, in order
    fPc,        \* "idle" | "call" | "loop" | "in_translate" | "inject"
                \* | "returned" | "raised"
    bWorkers,   \* translate_epub: max_workers
    bChunks,    \* per content file: the number of chunks of its segments
    bPc,        \* per content file: where _process_one is
    bDone,      \* per content file: chunks translated so far
    bDisk,      \* per content file: what the file on disk holds
    bMain,      \* translate_epub: where the calling thread is
    bPos,       \* translate_epub: position of the sequential loop
    bCollected, \* translate_epub: futures as_completed has yielded
    bLogged,    \* translate_epub: paths logged by logging.error
    bBody,      \* per content file: whether its document has a body
    bWarned,    \* translate_xhtml: paths logged by logging.warning
    bAccess,    \* per document tree: the _process_one calls that used it
    bHeld,      \* per content file: the chunks whose blocks hold {{SEG:n}}
    dFn,        \* translate_xhtml: which translate_fn was passed in
    dSegments,  \* translate_xhtml: segments, with translated_text
    dPc,        \* "idle" | "extract" | "translated" | "injected"
                \* | "returned"
    oRetryCount,\* OpenRouter.generate_content: config.retry_count
    oAttempt,   \* generate_content: attempt
    oHistory,   \* generate_content: how each HTTP attempt made so far ended
    oError,     \* generate_content: the exception that left it, or "none"
    oPc,        \* "idle" | "call" | "post" | "sleep" | "parse" | "returned"
                \* | "raised"
    tTasks,     \* web/app.py: TASKS, task id -> [status, progress, finished_at]
    tQueue,     \* TASK_EXECUTOR: the submitted work items not yet started
    tPc,        \* per task id: where its request handler or worker is
    tSeen,      \* what get_task returned last: <<copy>>, <<>> for None
    xDirs,      \* extract_epub: the directories under extracted_epubs
    xAtCall,    \* per call: the directories there when it was called
    xCounter,   \* per call: counter
    xOutputDir, \* per call: output_dir
    xPc,        \* per call: "idle" | "call" | "check" | "probe" | "mkdir"
                \* | "extract" | "returned"
    mOpf,       \* the OPF file: [manifest, spine]
    mOrdered,   \* get_xhtml_files_from_opf: ordered_items
    mPaths,     \* translate_epub: xhtml_paths
    mPos,       \* translate_epub: position of the loop in xhtml_paths
    mCount,     \* per content file: the _process_one calls made for it
    mPc,        \* "idle" | "call" | "listed" | "collected" | "done"
                \* | "raised"
    rFiles,     \* repackage_epub: what extracted_dir holds
    rArchive,   \* repackage_epub: the entries written to the archive
    rPos,       \* repackage_epub: position of the loop in the sorted paths
    rPc         \* "idle" | "call" | "loop" | "returned"

parseVars == <<pText, pChunk, pResult, pPc>>
chunkVars == <<cSegments, cMaxChars, cChunks, cPc>>
extractVars == <<eInput, eTree, eSnapshot, ePos, eSegments, eIndex, ePc>>
fileVars == <<fSegments, fMaxChars, fChunks, fPos, fPrev, fCalls, fPc>>

bookVars == <<bWorkers, bChunks, bPc, bDone, bDisk, bMain, bPos,
              bCollected, bLogged, bBody, bWarned, bAccess, bHeld>>

docVars == <<dFn, dSegments, dPc>>

providerVars == <<oRetryCount, oAttempt, oHistory, oError, oPc>>

\* the state of the pipeline of src/epub.py
coreVars == <<parseVars, chunkVars, extractVars, fileVars, bookVars, docVars>>

\* the state of what surrounds the pipeline
taskVars == <<tTasks, tQueue, tPc, tSeen>>

extractDirVars == <<xDirs, xAtCall, xCounter, xOutputDir, xPc>>

opfVars == <<mOpf, mOrdered, mPaths, mPos, mCount, mPc>>

repackVars == <<rFiles, rArchive, rPos, rPc>>

restVars == <<providerVars, taskVars, extractDirVars, opfVars, repackVars>>

\* what an action of one part leaves alone
providerRest == <<coreVars, taskVars, extractDirVars, opfVars, repackVars>>
taskRest == <<coreVars, providerVars, extractDirVars, opfVars, repackVars>>
extractDirRest == <<coreVars, providerVars, taskVars, opfVars, repackVars>>
opfRest == <<coreVars, providerVars, taskVars, extractDirVars, repackVars>>
repackRest == <<coreVars, providerVars, taskVars, extractDirVars, opfVars>>

vars == <<coreVars, restVars>>

-----------------------------------------------------------------------------
(* Bounds of the model.                                                    *)

\* longest translator output, counted in pieces of OutputPieces
MaxPieces == 4
\* largest segment index of a chunk handed to the codec
MaxIdx == 2
\* longest segment list handed to the chunker
MaxSegs == 4
\* longest source text of a segment handed to the chunker
MaxSegLen == 3
\* largest max_chars handed to the chunker
MaxBudget == 4
\* most nodes under body in a document handed to the extractor
MaxNodes == 4
\* number of content files of the book
NumFiles == 3
\* largest max_workers
MaxWorkers == 3
\* most chunks of a content file of the book
MaxFileChunks == 2
\* most children of the block of a document with inline content
MaxInline == 2
\* longest href of a hyperlink
MaxValLen == 2
\* most nodes directly under body in a document with containers
MaxBlocks == 2

-----------------------------------------------------------------------------
(* Strings.                                                                *)

NL == "\n"

\* Python's None: no string
None == <<"None">>
Whitespace == {" ", NL, "\t", "\r"}
Digits == {"0", "1", "2", "3", "4", "5", "6", "7", "8", "9"}

DigitValue(c) ==
    CASE c = "0" -> 0 [] c = "1" -> 1 [] c = "2" -> 2 [] c = "3" -> 3
      [] c = "4" -> 4 [] c = "5" -> 5 [] c = "6" -> 6 [] c = "7" -> 7
      [] c = "8" -> 8 [] c = "9" -> 9

RECURSIVE ParseInt(_)
\* int(s) of a non-empty digit string
ParseInt(s) ==
    IF Len(s) = 0 THEN 0
    ELSE 10 * ParseInt(SubSeq(s, 1, Len(s) - 1)) + DigitValue(s[Len(s)])

RECURSIVE LStrip(_)
LStrip(s) ==
    IF Len(s) > 0 /\ s[1] \in Whitespace THEN LStrip(Tail(s)) ELSE s

RECURSIVE RStrip(_)
RStrip(s) ==
    IF Len(s) > 0 /\ s[Len(s)] \in Whitespace
    THEN RStrip(SubSeq(s, 1, Len(s) - 1)) ELSE s

\* str.strip()
Strip(s) == RStrip(LStrip(s))

\* the least member of a non-empty set of numbers
Min(P) == CHOOSE p \in P : \A q \in P : p <= q

\* the k-th member of a set of numbers in increasing order
Nth(P, k) == CHOOSE p \in P : Cardinality({q \in P : q < p}) = k - 1

\* the positions of the character c in s
Positions(s, c) == {i \in 1..Len(s) : s[i] = c}

\* str.split('\n'): always at least one (possibly empty) line; line k
\* stands between the (k-1)-th and the k-th line break
SplitLines(s) ==
    [k \in 1..(Cardinality(Positions(s, NL)) + 1) |->
        SubSeq(s, Nth(Positions(s, NL) \cup {0}, k) + 1,
                  Nth(Positions(s, NL) \cup {Len(s) + 1}, k) - 1)]

RECURSIVE JoinLines(_)
\* "\n".join(lines)
JoinLines(lines) ==
    IF Len(lines) = 0 THEN <<>>
    ELSE IF Len(lines) = 1 THEN lines[1]
    ELSE lines[1] \o <<NL>> \o JoinLines(Tail(lines))

\* s[start:end] with Python's 0-based, end-exclusive, clamped slicing
Slice(s, start, end) ==
    LET hi == IF end > Len(s) THEN Len(s) ELSE end
    IN  IF start >= hi THEN <<>> ELSE SubSeq(s, start + 1, hi)

RECURSIVE DigitRun(_, _)
\* number of leading digits of s from position i (1-based)
DigitRun(s, i) ==
    IF i <= Len(s) /\ s[i] \in Digits THEN 1 + DigitRun(s, i + 1) ELSE 0


-----------------------------------------------------------------------------
(* Document trees.  A tree is [nodes, children]: nodes maps a node id to   *)
(* [tag, attrs, text] (tag "#text" for a NavigableString), children maps   *)
(* a node id to the sequence of its child ids.  Node 0 is body.            *)

BlockTags == {"p", "h1", "h2", "h3", "h4", "h5", "h6", "blockquote", "li"}

PreserveInlineClasses ==
    { <<"e", "m", "-", "s", "e", "s", "a", "m", "e">>,
      <<"b", "o", "l", "d">>,
      <<"i", "t", "a", "l", "i", "c">> }

InlineAttrSep == <<"|", "|">>

\* the attributes the pipeline looks at: href and id are a string or None
\* (attribute absent), class is the list of class names
NoAttrs == [href |-> None, id |-> None, class |-> <<>>]

\* child.get(name, '') or ''
AttrOrEmpty(v) == IF v = None THEN <<>> ELSE v

TextNode(text) == [tag |-> "#text", attrs |-> NoAttrs, text |-> text]
Element(tag, attrs) == [tag |-> tag, attrs |-> attrs, text |-> <<>>]

RECURSIVE DescendantsOfAll(_, _)
\* the descendants of node n in document (pre-)order
Descendants(tree, n) == DescendantsOfAll(tree, tree.children[n])
DescendantsOfAll(tree, kids) ==
    IF Len(kids) = 0 THEN <<>>
    ELSE <<kids[1]>> \o DescendantsOfAll(tree, tree.children[kids[1]])
                    \o DescendantsOfAll(tree, Tail(kids))

RECURSIVE ConcatTexts(_, _)
ConcatTexts(tree, ids) ==
    IF Len(ids) = 0 THEN <<>>
    ELSE (IF tree.nodes[ids[1]].tag = "#text"
          THEN tree.nodes[ids[1]].text ELSE <<>>)
            \o ConcatTexts(tree, Tail(ids))

\* Tag.get_text(): the strings below n, concatenated in document order
GetText(tree, n) ==
    IF tree.nodes[n].tag = "#text" THEN tree.nodes[n].text
    ELSE ConcatTexts(tree, Descendants(tree, n))

Hex == <<"0", "1", "2", "3", "4", "5", "6", "7",
         "8", "9", "A", "B", "C", "D", "E", "F">>

\* code points of the characters urllib.parse.quote(safe="") escapes
CharCode(c) ==
    CASE c = " " -> 32 [] c = "%" -> 37 [] c = ":" -> 58 [] c = "<" -> 60
      [] c = "=" -> 61 [] c = ">" -> 62 [] c = "|" -> 124 [] c = "#" -> 35
      [] c = "/" -> 47 [] c = "{" -> 123 [] c = "}" -> 125 [] c = "[" -> 91
      [] c = "]" -> 93 [] c = NL -> 10 [] c = "\t" -> 9 [] c = "\r" -> 13

Reserved ==
    {" ", "%", ":", "<", "=", ">", "|", "#", "/", "{", "}", "[", "]",
     NL, "\t", "\r"}

RECURSIVE EncodeMarkerValue(_)
\* quote(value, safe=""): every character but letters, digits and _.-~
\* becomes %XX
EncodeMarkerValue(value) ==
    IF Len(value) = 0 THEN <<>>
    ELSE (IF value[1] \in Reserved
          THEN <<"%", Hex[(CharCode(value[1]) \div 16) + 1],
                      Hex[(CharCode(value[1]) % 16) + 1]>>
          ELSE <<value[1]>>)
            \o EncodeMarkerValue(Tail(value))

RECURSIVE JoinWith(_, _)
\* sep.join(parts)
JoinWith(parts, sep) ==
    IF Len(parts) = 0 THEN <<>>
    ELSE IF Len(parts) = 1 THEN parts[1]
    ELSE parts[1] \o sep \o JoinWith(Tail(parts), sep)

\* the <<a:href=..||id=..||class=..||text=..>> marker of a hyperlink child
LinkMarker(tree, child) ==
    LET a == tree.nodes[child].attrs
    IN  <<"<", "<", "a", ":">>
          \o JoinWith(<< <<"h", "r", "e", "f", "=">>
                            \o EncodeMarkerValue(AttrOrEmpty(a.href)),
                         <<"i", "d", "=">>
                            \o EncodeMarkerValue(AttrOrEmpty(a.id)),
                         <<"c", "l", "a", "s", "s", "=">>
                            \o EncodeMarkerValue(JoinWith(a.class, <<" ">>)),
                         <<"t", "e", "x", "t", "=">>
                            \o EncodeMarkerValue(GetText(tree, child)) >>,
                      InlineAttrSep)
          \o <<">", ">">>

\* the preserve-inline classes a child carries
MarkerClasses(tree, child) ==
    {tree.nodes[child].attrs.class[i] :
        i \in 1..Len(tree.nodes[child].attrs.class)} \cap PreserveInlineClasses

\* what one child contributes to the extracted text; cls is the class
\* next(iter(marker_cls)) picked
ChildText(tree, child, cls) ==
    IF tree.nodes[child].tag = "#text" THEN tree.nodes[child].text
    ELSE IF tree.nodes[child].tag = "a" THEN LinkMarker(tree, child)
    ELSE IF MarkerClasses(tree, child) # {}
    THEN <<"<", "<">> \o cls \o <<":">> \o GetText(tree, child) \o <<">", ">">>
    ELSE GetText(tree, child)

RECURSIVE ExtractTexts(_, _)
\* the texts _extract_text_with_inline_markers can return for the children
\* kids: the iteration order of a set of several preserve classes is not
\* fixed, so any of them may be picked
ExtractTexts(tree, kids) ==
    IF Len(kids) = 0 THEN {<<>>}
    ELSE LET mc    == MarkerClasses(tree, kids[1])
             heads == {ChildText(tree, kids[1], c) :
                          c \in IF mc = {} THEN {<<>>} ELSE mc}
         IN  {h \o t : h \in heads, t \in ExtractTexts(tree, Tail(kids))}

\* _extract_text_with_inline_markers(elem), as a set of possible results
ExtractTextWithInlineMarkers(tree, elem) ==
    ExtractTexts(tree, tree.children[elem])

\* _has_nested_block(elem)
HasNestedBlock(tree, elem) ==
    \E i \in 1..Len(Descendants(tree, elem)) :
        tree.nodes[Descendants(tree, elem)[i]].tag \in BlockTags

RECURSIVE NatToDigits(_)
\* str(n)
NatToDigits(n) ==
    IF n < 10 THEN <<Hex[n + 1]>>
    ELSE NatToDigits(n \div 10) \o <<Hex[(n % 10) + 1]>>

\* f"{{{{SEG:{index}}}}}"
Placeholder(index) ==
    <<"{", "{", "S", "E", "G", ":">> \o NatToDigits(index) \o <<"}", "}">>

\* elem.clear(); elem.string = text: the children of elem are detached and
\* a new string node becomes its only child
SetString(tree, elem, text) ==
    LET new == tree.size
    IN  [nodes    |-> [i \in 0..new |->
                         IF i = new THEN TextNode(text) ELSE tree.nodes[i]],
         children |-> [i \in 0..new |->
                         IF i = new THEN <<>>
                         ELSE IF i = elem THEN <<new>>
                         ELSE tree.children[i]],
         size     |-> new + 1]

\* a TextSegment of the extractor: element is the id of the anchor node
TextSegment(index, elem, text) ==
    [index |-> index, element |-> elem, original_text |-> text]

\* mutation: index is not advanced after a segment
VisitBlockSameIndex(st, elem, text) ==
    [tree     |-> SetString(st.tree, elem, Placeholder(st.index)),
     segments |-> Append(st.segments, TextSegment(st.index, elem, text)),
     index    |-> st.index]

\* mutation: the segment is recorded but the block keeps its children
VisitBlockNoPlaceholder(st, elem, text) ==
    [tree     |-> st.tree,
     segments |-> Append(st.segments, TextSegment(st.index, elem, text)),
     index    |-> st.index + 1]

\* the loop body of extract_segments for a minimal block with text:
\* the segment is appended, the block gets its placeholder, index advances
VisitBlock(st, elem, text) ==
    [tree     |-> SetString(st.tree, elem, Placeholder(st.index)),
     segments |-> Append(st.segments, TextSegment(st.index, elem, text)),
     index    |-> st.index + 1]

\* mutation: only the children are looked at, not all descendants
SkipsChildBlockOnly(tree, elem) ==
    \/ tree.nodes[elem].tag = "#text"
    \/ tree.nodes[elem].tag \notin BlockTags
    \/ \E i \in 1..Len(tree.children[elem]) :
           tree.nodes[tree.children[elem][i]].tag \in BlockTags

\* the three leading `continue`s of the loop body
SkipsNode(tree, elem) ==
    \/ tree.nodes[elem].tag = "#text"
    \/ tree.nodes[elem].tag \notin BlockTags
    \/ HasNestedBlock(tree, elem)

-----------------------------------------------------------------------------
(* Simplification: simplify_dom.                                           *)

JpInlineUnwrapClasses ==
    { <<"k", "o", "b", "o", "S", "p", "a", "n">>, <<"t", "c", "y">>,
      <<"u", "p", "r", "i", "g", "h", "t">> }

\* Tag.find_all(tag): the descendants of n with that name, in document order
FindAll(tree, n, tag) ==
    SelectSeq(Descendants(tree, n), LAMBDA d : tree.nodes[d].tag = tag)

\* the element that holds n among its children
ParentOf(tree, n) ==
    CHOOSE q \in 0..(tree.size - 1) :
        \E i \in 1..Len(tree.children[q]) : tree.children[q][i] = n

\* PageElement.decompose(): n leaves its parent, and n and everything
\* below it lose their contents
Decompose(tree, n) ==
    LET gone == {n} \cup {Descendants(tree, n)[i] :
                              i \in 1..Len(Descendants(tree, n))}
    IN  [tree EXCEPT !.children =
            [q \in DOMAIN tree.children |->
                IF q \in gone THEN <<>>
                ELSE SelectSeq(tree.children[q], LAMBDA c : c # n)]]

RECURSIVE DecomposeAll(_, _)
DecomposeAll(tree, ns) ==
    IF Len(ns) = 0 THEN tree
    ELSE DecomposeAll(Decompose(tree, ns[1]), Tail(ns))

\* Tag.unwrap(): n is replaced by its children
Unwrap(tree, n) ==
    LET q    == ParentOf(tree, n)
        kids == tree.children[q]
        k    == CHOOSE i \in 1..Len(kids) : kids[i] = n
    IN  [tree EXCEPT !.children =
            [c \in DOMAIN tree.children |->
                IF c = q
                THEN SubSeq(kids, 1, k - 1) \o tree.children[n]
                        \o SubSeq(kids, k + 1, Len(kids))
                ELSE IF c = n THEN <<>>
                ELSE tree.children[c]]]

RECURSIVE UnwrapAll(_, _)
UnwrapAll(tree, ns) ==
    IF Len(ns) = 0 THEN tree
    ELSE UnwrapAll(Unwrap(tree, ns[1]), Tail(ns))

\* the body of the loop over the ruby elements: ruby.find('rt') is the
\* first rt below the ruby, and a Tag is always true
SimplifyRuby(tree, ruby) ==
    LET rts == FindAll(tree, ruby, "rt")
        t1  == IF Len(rts) > 0 THEN Decompose(tree, rts[1]) ELSE tree
        t2  == DecomposeAll(t1, FindAll(t1, ruby, "rp"))
    IN  Unwrap(t2, ruby)

RECURSIVE SimplifyRubies(_, _)
\* for ruby in body.find_all('ruby'): the list is made before the loop
SimplifyRubies(tree, rubies) ==
    IF Len(rubies) = 0 THEN tree
    ELSE SimplifyRubies(SimplifyRuby(tree, rubies[1]), Tail(rubies))

\* find_all('span', class_=cls) for the classes of
\* _JP_INLINE_UNWRAP_CLASSES: a span found for one class is out of the tree
\* when the next class is looked for, so each such span is unwrapped once
UnwrapSpans(tree) ==
    UnwrapAll(tree,
        SelectSeq(FindAll(tree, 0, "span"),
                  LAMBDA d : \E i \in 1..Len(tree.nodes[d].attrs.class) :
                      tree.nodes[d].attrs.class[i] \in JpInlineUnwrapClasses))

RECURSIVE SmoothKids(_, _)
\* adjacent strings among kids become one string, which stands where the
\* first of them stood: [tree, kids]
SmoothKids(tree, kids) ==
    IF Len(kids) <= 1 THEN [tree |-> tree, kids |-> kids]
    ELSE LET rest == SmoothKids(tree, Tail(kids))
         IN  IF /\ tree.nodes[kids[1]].tag = "#text"
                /\ tree.nodes[rest.kids[1]].tag = "#text"
             THEN [tree |-> [rest.tree EXCEPT !.nodes[kids[1]].text =
                                @ \o rest.tree.nodes[rest.kids[1]].text],
                   kids |-> <<kids[1]>> \o Tail(rest.kids)]
             ELSE [tree |-> rest.tree, kids |-> <<kids[1]>> \o rest.kids]

RECURSIVE SmoothFrom(_, _)
SmoothFrom(tree, n) ==
    IF n >= tree.size THEN tree
    ELSE LET r == SmoothKids(tree, tree.children[n])
         IN  SmoothFrom([r.tree EXCEPT !.children[n] = r.kids], n + 1)

\* body.smooth()
Smooth(tree) == SmoothFrom(tree, 0)

\* simplify_dom(body)
SimplifyDom(tree) ==
    Smooth(UnwrapSpans(SimplifyRubies(tree, FindAll(tree, 0, "ruby"))))

-----------------------------------------------------------------------------
(* Reinjection: _inject_translations.                                      *)

\* the characters of [a-zA-Z0-9_-]
NameChars ==
    { "a", "b", "c", "d", "e", "f", "g", "h", "i", "j", "k", "l", "m",
      "n", "o", "p", "q", "r", "s", "t", "u", "v", "w", "x", "y", "z",
      "A", "B", "C", "D", "E", "F", "G", "H", "I", "J", "K", "L", "M",
      "N", "O", "P", "Q", "R", "S", "T", "U", "V", "W", "X", "Y", "Z",
      "_", "-" } \cup Digits

\* length of the run of name characters of s from position i
NameRun(s, i) ==
    Cardinality({k \in i..Len(s) : \A j \in i..k : s[j] \in NameChars})

\* (.+?)>> with the payload starting at position ps: the position of the
\* last character of the shortest payload, 0 if there is none; the dot
\* does not match a line break
PayloadEnd(s, ps) ==
    LET ends == {k \in ps..(Len(s) - 2) :
                    /\ s[k + 1] = ">"
                    /\ s[k + 2] = ">"
                    /\ \A j \in ps..k : s[j] # NL}
    IN  IF ends = {} THEN 0 ELSE Min(ends)

\* _INLINE_MARKER_RE matched at position i of s
MarkerAt(s, i) ==
    LET n  == NameRun(s, i + 2)
        ps == i + 3 + n
        pe == PayloadEnd(s, ps)
        ok == /\ i + 1 <= Len(s)
              /\ s[i] = "<"
              /\ s[i + 1] = "<"
              /\ n > 0
              /\ i + 2 + n <= Len(s)
              /\ s[i + 2 + n] = ":"
              /\ pe > 0
    IN  [ok      |-> ok,
         name    |-> IF ok THEN SubSeq(s, i + 2, i + 1 + n) ELSE <<>>,
         payload |-> IF ok THEN SubSeq(s, ps, pe) ELSE <<>>,
         end     |-> IF ok THEN pe + 2 ELSE 0]

RECURSIVE SplitFrom(_, _)
\* the text from position start up to the next match, the two groups of
\* the match, and so on after it
SplitFrom(s, start) ==
    LET found == {i \in start..Len(s) : MarkerAt(s, i).ok}
    IN  IF found = {} THEN <<SubSeq(s, start, Len(s))>>
        ELSE <<SubSeq(s, start, Min(found) - 1),
               MarkerAt(s, Min(found)).name,
               MarkerAt(s, Min(found)).payload>>
                \o SplitFrom(s, MarkerAt(s, Min(found)).end + 1)

\* _INLINE_MARKER_RE.split(text)
MarkerSplit(text) == SplitFrom(text, 1)

RECURSIVE SplitSepFrom(_, _)
SplitSepFrom(s, start) ==
    LET found == {i \in start..(Len(s) - 1) :
                     SubSeq(s, i, i + 1) = InlineAttrSep}
    IN  IF found = {} THEN <<SubSeq(s, start, Len(s))>>
        ELSE <<SubSeq(s, start, Min(found) - 1)>>
                \o SplitSepFrom(s, Min(found) + 2)

\* inner.split(_INLINE_ATTR_SEP)
SplitSep(s) == SplitSepFrom(s, 1)

\* position of the first c in s, 0 if there is none
IndexOf(s, c) ==
    IF Positions(s, c) = {} THEN 0 ELSE Min(Positions(s, c))

HexDigits == Digits \cup {"A", "B", "C", "D", "E", "F",
                          "a", "b", "c", "d", "e", "f"}

HexValue(c) ==
    CASE c \in Digits -> DigitValue(c)
      [] c \in {"A", "a"} -> 10 [] c \in {"B", "b"} -> 11
      [] c \in {"C", "c"} -> 12 [] c \in {"D", "d"} -> 13
      [] c \in {"E", "e"} -> 14 [] c \in {"F", "f"} -> 15

\* the escaped characters with code point n
CharsOfCode(n) == {c \in Reserved : CharCode(c) = n}

RECURSIVE DecodeMarkerValue(_)
\* unquote(value): %XX becomes the character with that code; a % without
\* two hex digits stays. Codes of characters other than the ones
\* EncodeMarkerValue escapes are left as they are.
DecodeMarkerValue(value) ==
    IF Len(value) = 0 THEN <<>>
    ELSE IF /\ value[1] = "%"
            /\ Len(value) >= 3
            /\ value[2] \in HexDigits
            /\ value[3] \in HexDigits
            /\ CharsOfCode(16 * HexValue(value[2]) + HexValue(value[3])) # {}
    THEN <<CHOOSE c \in CharsOfCode(16 * HexValue(value[2])
                                      + HexValue(value[3])) : TRUE>>
            \o DecodeMarkerValue(SubSeq(value, 4, Len(value)))
    ELSE <<value[1]>> \o DecodeMarkerValue(Tail(value))

RECURSIVE LinkAttr(_, _, _)
\* attrs.get(key) after the loop over the items: the decoded value of the
\* last item key=value, None if there is none; items without = are skipped
LinkAttr(items, key, found) ==
    IF Len(items) = 0 THEN found
    ELSE LET item == items[1]
             eq   == IndexOf(item, "=")
         IN  IF eq > 0 /\ SubSeq(item, 1, eq - 1) = key
             THEN LinkAttr(Tail(items), key,
                           DecodeMarkerValue(SubSeq(item, eq + 1, Len(item))))
             ELSE LinkAttr(Tail(items), key, found)

RECURSIVE SplitWsFrom(_, _)
SplitWsFrom(s, cur) ==
    IF Len(s) = 0 THEN (IF cur = <<>> THEN <<>> ELSE <<cur>>)
    ELSE IF s[1] \in Whitespace
    THEN (IF cur = <<>> THEN <<>> ELSE <<cur>>) \o SplitWsFrom(Tail(s), <<>>)
    ELSE SplitWsFrom(Tail(s), Append(cur, s[1]))

\* str.split(): the runs of non-whitespace characters
SplitWs(s) == SplitWsFrom(s, <<>>)

\* a Python string or None taken as a condition
Truthy(v) == v # None /\ v # <<>>

\* parent.append(node): the new node becomes the last child of parent
AppendChild(tree, parent, node) ==
    LET new == tree.size
    IN  [nodes    |-> [i \in 0..new |->
                         IF i = new THEN node ELSE tree.nodes[i]],
         children |-> [i \in 0..new |->
                         IF i = new THEN <<>>
                         ELSE IF i = parent THEN Append(tree.children[i], new)
                         ELSE tree.children[i]],
         size     |-> new + 1]

\* elem.clear()
Clear(tree, elem) ==
    [tree EXCEPT !.children = [tree.children EXCEPT ![elem] = <<>>]]

\* the a element rebuilt from a link marker's payload, appended to elem
AppendLink(tree, elem, inner) ==
    LET items       == SplitSep(inner)
        href        == LinkAttr(items, <<"h", "r", "e", "f">>, None)
        id          == LinkAttr(items, <<"i", "d">>, None)
        class       == LinkAttr(items, <<"c", "l", "a", "s", "s">>, None)
        anchor_text == LinkAttr(items, <<"t", "e", "x", "t">>, <<>>)
        anchor      == Element("a",
                          [href  |-> IF Truthy(href) THEN href ELSE None,
                           id    |-> IF Truthy(id) THEN id ELSE None,
                           class |-> IF Truthy(class) THEN SplitWs(class)
                                     ELSE <<>>])
        withAnchor  == AppendChild(tree, elem, anchor)
    IN  IF Truthy(anchor_text)
        THEN AppendChild(withAnchor, tree.size, TextNode(anchor_text))
        ELSE withAnchor

\* the span html.parser builds from <span class="cls_name">inner</span>,
\* appended to elem; inner is one string, the texts of this model holding
\* no markup characters outside the percent-encoded link values
AppendSpan(tree, elem, cls_name, inner) ==
    AppendChild(AppendChild(tree, elem,
                            Element("span", [NoAttrs EXCEPT
                                                !.class = <<cls_name>>])),
                tree.size, TextNode(inner))

RECURSIVE InjectParts(_, _, _, _)
\* the while loop over parts, from position i (1-based) on
InjectParts(tree, elem, parts, i) ==
    IF i > Len(parts) THEN tree
    ELSE IF i % 3 = 1
    THEN InjectParts(IF parts[i] # <<>>
                     THEN AppendChild(tree, elem, TextNode(parts[i]))
                     ELSE tree,
                     elem, parts, i + 1)
    ELSE LET inner == IF i + 1 <= Len(parts) THEN parts[i + 1] ELSE <<>>
         IN  InjectParts(IF parts[i] = <<"a">>
                         THEN AppendLink(tree, elem, inner)
                         ELSE AppendSpan(tree, elem, parts[i], inner),
                         elem, parts, i + 2)

\* the loop body of _inject_translations once text is chosen
InjectOne(tree, elem, text) ==
    IF Len(MarkerSplit(text)) = 1 THEN SetString(tree, elem, text)
    ELSE InjectParts(Clear(tree, elem), elem, MarkerSplit(text), 1)

\* text = seg.translated_text if seg.translated_text else seg.original_text
InjectText(seg) ==
    IF Truthy(seg.translated_text) THEN seg.translated_text
    ELSE seg.original_text

InjectTranslationsIntoFirst(tree, segments) ==
    IF Len(segments) = 0 THEN tree
    ELSE InjectOne(tree, segments[1].element,
                   InjectText(segments[Len(segments)]))

RECURSIVE InjectTranslations(_, _)
\* _inject_translations(segments)
InjectTranslations(tree, segments) ==
    IF Len(segments) = 0 THEN tree
    ELSE InjectTranslations(InjectOne(tree, segments[1].element,
                                      InjectText(segments[1])),
                            Tail(segments))

-----------------------------------------------------------------------------
(* Segments and the chunker: chunk_segments.                               *)

\* a TextSegment as the chunker and the codec see it
Seg(i, text) == [index |-> i, original_text |-> text]

\* mutation: the chunk that is closed is not appended to chunks
ChunkStepDropsClosed(st, seg, max_chars) ==
    LET seg_len == Len(seg.original_text)
        closes  == Len(st.current_chunk) > 0
                     /\ st.current_size + seg_len > max_chars
    IN  [chunks        |-> st.chunks,
         current_chunk |-> (IF closes THEN <<>> ELSE st.current_chunk)
                             \o <<seg>>,
         current_size  |-> (IF closes THEN 0 ELSE st.current_size) + seg_len]

\* mutation: the size test leaves out the segment being added
ChunkStepLateClose(st, seg, max_chars) ==
    LET seg_len == Len(seg.original_text)
        closes  == Len(st.current_chunk) > 0 /\ st.current_size > max_chars
    IN  [chunks        |-> IF closes THEN Append(st.chunks, st.current_chunk)
                           ELSE st.chunks,
         current_chunk |-> (IF closes THEN <<>> ELSE st.current_chunk)
                             \o <<seg>>,
         current_size  |-> (IF closes THEN 0 ELSE st.current_size) + seg_len]

\* mutation: a segment that fills the chunk exactly closes it already
ChunkStepClosesAtBudget(st, seg, max_chars) ==
    LET seg_len == Len(seg.original_text)
        closes  == Len(st.current_chunk) > 0
                     /\ st.current_size + seg_len >= max_chars
    IN  [chunks        |-> IF closes THEN Append(st.chunks, st.current_chunk)
                           ELSE st.chunks,
         current_chunk |-> (IF closes THEN <<>> ELSE st.current_chunk)
                             \o <<seg>>,
         current_size  |-> (IF closes THEN 0 ELSE st.current_size) + seg_len]

\* one iteration of the loop over segments
ChunkStep(st, seg, max_chars) ==
    LET seg_len == Len(seg.original_text)
        closes  == Len(st.current_chunk) > 0
                     /\ st.current_size + seg_len > max_chars
    IN  [chunks        |-> IF closes THEN Append(st.chunks, st.current_chunk)
                           ELSE st.chunks,
         current_chunk |-> (IF closes THEN <<>> ELSE st.current_chunk)
                             \o <<seg>>,
         current_size  |-> (IF closes THEN 0 ELSE st.current_size) + seg_len]

RECURSIVE ChunkLoop(_, _, _)
ChunkLoop(st, segments, max_chars) ==
    IF Len(segments) = 0 THEN st
    ELSE ChunkLoop(ChunkStep(st, segments[1], max_chars),
                   Tail(segments), max_chars)

ChunkSegments(segments, max_chars) ==
    LET st == ChunkLoop([chunks |-> <<>>, current_chunk |-> <<>>,
                         current_size |-> 0], segments, max_chars)
    IN  IF Len(st.current_chunk) > 0
        THEN Append(st.chunks, st.current_chunk)
        ELSE st.chunks

-----------------------------------------------------------------------------
(* Chunk codec: build_chunk_text / parse_translated_chunk.                 *)

\* f"[{seg.index}] {seg.original_text}"
ChunkLine(seg) ==
    <<"[">> \o NatToDigits(seg.index) \o <<"]", " ">> \o seg.original_text

\* build_chunk_text(chunk)
BuildChunkText(chunk) ==
    JoinLines([i \in 1..Len(chunk) |-> ChunkLine(chunk[i])])

\* marker_pattern = ^\[(\d+)\]\s*(.*)$ matched against one line:
\* [ok, index (group 1 as int), rest (group 2)]
MarkerMatch(line) ==
    LET n == DigitRun(line, 2)
    IN  IF Len(line) >= 3 /\ line[1] = "[" /\ n >= 1
           /\ 2 + n <= Len(line) /\ line[2 + n] = "]"
        THEN [ok |-> TRUE,
              index |-> ParseInt(SubSeq(line, 2, 1 + n)),
              rest |-> LStrip(SubSeq(line, 3 + n, Len(line)))]
        ELSE [ok |-> FALSE, index |-> 0, rest |-> <<>>]

\* result[current_index] = "\n".join(current_lines).strip()
Flush(st) ==
    IF st.cur = -1 THEN st.result
    ELSE [k \in (DOMAIN st.result) \cup {st.cur} |->
            IF k = st.cur THEN Strip(JoinLines(st.lines)) ELSE st.result[k]]

\* mutation: a line without marker is not appended to the current entry
MarkerStepSkipsLines(st, line) ==
    LET m == MarkerMatch(line)
    IN  IF m.ok
        THEN [result |-> Flush(st), cur |-> m.index, lines |-> <<m.rest>>]
        ELSE st

\* one iteration of the marker loop; cur = -1 stands for current_index None
MarkerStep(st, line) ==
    LET m == MarkerMatch(line)
    IN  IF m.ok
        THEN [result |-> Flush(st), cur |-> m.index, lines |-> <<m.rest>>]
        ELSE IF st.cur # -1
             THEN [st EXCEPT !.lines = Append(st.lines, line)]
             ELSE st

RECURSIVE MarkerLoop(_, _)
MarkerLoop(st, lines) ==
    IF Len(lines) = 0 THEN st
    ELSE MarkerLoop(MarkerStep(st, lines[1]), Tail(lines))

\* the mapping built by the marker loop and the final flush
MarkerParse(lines) ==
    Flush(MarkerLoop([result |-> <<>>, cur |-> -1, lines |-> <<>>], lines))

ExpectedIndices(chunk) == {chunk[i].index : i \in 1..Len(chunk)}

\* mutation: one recovered expected index is taken for all of them
MarkerCoversSome(result, expected) == (DOMAIN result) \cap expected # {}

\* result.keys() >= expected_indices
MarkerCovers(result, expected) == expected \subseteq DOMAIN result

RECURSIVE CleanedNonEmpty(_)
\* cleaned_lines, then the lines l with l.strip() non-empty
CleanedNonEmpty(lines) ==
    IF Len(lines) = 0 THEN <<>>
    ELSE LET m == MarkerMatch(lines[1])
             c == IF m.ok THEN m.rest ELSE lines[1]
         IN  (IF Len(Strip(c)) > 0 THEN <<c>> ELSE <<>>)
               \o CleanedNonEmpty(Tail(lines))

\* len(non_empty) == len(chunk)
LineCountMatches(nonEmpty, chunk) == Len(nonEmpty) = Len(chunk)

\* {seg.index: text.strip() for seg, text in zip(chunk, non_empty)}
ZipLines(chunk, nonEmpty) ==
    LET n == IF Len(chunk) < Len(nonEmpty) THEN Len(chunk) ELSE Len(nonEmpty)
    IN  [k \in {chunk[i].index : i \in 1..n} |->
            LET i == CHOOSE j \in 1..n :
                        /\ chunk[j].index = k
                        /\ \A j2 \in 1..n : chunk[j2].index = k => j2 <= j
            IN  Strip(nonEmpty[i])]

\* mutation: the last slice ends after avg_len characters like the others
ProportionalEvenSlices(text, chunk) ==
    LET full == Strip(text)
        n    == Len(chunk)
        avg  == IF n # 0 THEN Len(full) \div n ELSE 1
    IN  [k \in ExpectedIndices(chunk) |->
            LET i == CHOOSE j \in 1..n :
                        /\ chunk[j].index = k
                        /\ \A j2 \in 1..n : chunk[j2].index = k => j2 <= j
            IN  Strip(Slice(full, (i - 1) * avg, i * avg))]

\* the proportional split of the whole stripped output
Proportional(text, chunk) ==
    LET full == Strip(text)
        n    == Len(chunk)
        avg  == IF n # 0 THEN Len(full) \div n ELSE 1
    IN  [k \in ExpectedIndices(chunk) |->
            LET i == CHOOSE j \in 1..n :
                        /\ chunk[j].index = k
                        /\ \A j2 \in 1..n : chunk[j2].index = k => j2 <= j
                start == (i - 1) * avg
                end   == IF i - 1 < n - 1 THEN i * avg ELSE Len(full)
            IN  Strip(Slice(full, start, end))]

\* mutation: the line-count fallback is tried before the marker result
ParseLineCountFirst(text, chunk) ==
    LET lines    == SplitLines(Strip(text))
        result   == MarkerParse(lines)
        expected == ExpectedIndices(chunk)
        nonEmpty == CleanedNonEmpty(lines)
    IN  IF LineCountMatches(nonEmpty, chunk)
        THEN ZipLines(chunk, nonEmpty)
        ELSE IF MarkerCovers(result, expected)
        THEN [k \in (DOMAIN result) \cap expected |-> result[k]]
        ELSE Proportional(text, chunk)

ParseTranslatedChunk(text, chunk) ==
    LET lines    == SplitLines(Strip(text))
        result   == MarkerParse(lines)
        expected == ExpectedIndices(chunk)
        nonEmpty == CleanedNonEmpty(lines)
    IN  IF MarkerCovers(result, expected)
        THEN [k \in (DOMAIN result) \cap expected |-> result[k]]
        ELSE IF LineCountMatches(nonEmpty, chunk)
        THEN ZipLines(chunk, nonEmpty)
        ELSE Proportional(text, chunk)


-----------------------------------------------------------------------------
(* parse_translated_chunk applied to bounded inputs.                       *)

\* what a translator output is assembled from
OutputPieces ==
    { <<"[", "0", "]">>, <<"[", "1", "]">>, <<"[", "0", "1", "]">>,
      <<"a">>, <<"b">>, <<" ">>, <<NL>> }

RECURSIVE Flatten(_)
Flatten(ps) == IF Len(ps) = 0 THEN <<>> ELSE ps[1] \o Flatten(Tail(ps))

OutputTexts ==
    {Flatten(ps) : ps \in UNION {[1..n -> OutputPieces] : n \in 0..MaxPieces}}

\* chunks of segments with consecutive indices lo..hi
CodecChunks ==
    { [j \in 1..(hi - lo + 1) |-> Seg(lo + j - 1, <<"a">>)] :
        lo \in 0..MaxIdx, hi \in 0..MaxIdx } \ {<<>>}

ProviderIdle ==
    /\ oRetryCount = 0
    /\ oAttempt = 0
    /\ oHistory = <<>>
    /\ oError = "none"
    /\ oPc = "idle"

TaskIdle ==
    /\ tTasks = <<>>
    /\ tQueue = <<>>
    /\ tPc = <<>>
    /\ tSeen = <<>>

ExtractDirIdle ==
    /\ xDirs = {}
    /\ xAtCall = <<>>
    /\ xCounter = <<>>
    /\ xOutputDir = <<>>
    /\ xPc = <<>>

OpfIdle ==
    /\ mOpf = <<>>
    /\ mOrdered = <<>>
    /\ mPaths = <<>>
    /\ mPos = 0
    /\ mCount = <<>>
    /\ mPc = "idle"

RepackIdle ==
    /\ rFiles = {}
    /\ rArchive = <<>>
    /\ rPos = 0
    /\ rPc = "idle"

RestIdle ==
    ProviderIdle /\ TaskIdle /\ ExtractDirIdle /\ OpfIdle /\ RepackIdle

ExtractIdle ==
    /\ eInput = <<>>
    /\ eTree = <<>>
    /\ eSnapshot = <<>>
    /\ ePos = 0
    /\ eSegments = <<>>
    /\ eIndex = 0
    /\ ePc = "idle"

BookIdle ==
    /\ bWorkers = 0
    /\ bChunks = <<>>
    /\ bPc = <<>>
    /\ bDone = <<>>
    /\ bDisk = <<>>
    /\ bMain = "idle"
    /\ bPos = 0
    /\ bCollected = {}
    /\ bLogged = {}
    /\ bBody = <<>>
    /\ bWarned = {}
    /\ bAccess = <<>>
    /\ bHeld = <<>>

DocIdle ==
    /\ dFn = "none"
    /\ dSegments = <<>>
    /\ dPc = "idle"

FileIdle ==
    /\ fSegments = <<>>
    /\ fMaxChars = 0
    /\ fChunks = <<>>
    /\ fPos = 0
    /\ fPrev = <<>>
    /\ fCalls = <<>>
    /\ fPc = "idle"

ChunkIdle ==
    /\ cSegments = <<>>
    /\ cMaxChars = 0
    /\ cChunks = <<>>
    /\ cPc = "idle"

ParseIdle ==
    /\ pText = <<>>
    /\ pChunk = <<>>
    /\ pResult = <<>>
    /\ pPc = "idle"

ParseInit ==
    /\ RestIdle
    /\ BookIdle
    /\ DocIdle
    /\ ChunkIdle
    /\ ExtractIdle
    /\ FileIdle
    /\ pText \in OutputTexts
    /\ pChunk \in CodecChunks
    /\ pResult = <<>>
    /\ pPc = "call"

\* mapping = parse_translated_chunk(translated, chunk)
ParseCall ==
    /\ pPc = "call"
    /\ pResult' = ParseTranslatedChunk(pText, pChunk)
    /\ pPc' = "returned"
    /\ UNCHANGED <<pText, pChunk, chunkVars, extractVars, fileVars, bookVars,
                   docVars, restVars>>

ParseNext == ParseCall

SpecParse == ParseInit /\ [][ParseNext]_vars

-----------------------------------------------------------------------------
(* A chunk encoded by build_chunk_text and decoded again, as an identity   *)
(* translate_fn makes translate_and_inject do.                             *)

\* what a segment's source text is assembled from: a block's text may hold
\* line breaks and bracketed numbers
SourcePieces == { <<"a">>, <<" ">>, <<NL>>, <<"[", "1", "]">> }

\* original_text is stripped and never empty
SourceLines ==
    {Strip(Flatten(ps)) :
        ps \in UNION {[1..n -> SourcePieces] : n \in 1..MaxPieces}} \ {<<>>}

\* chunks of segments with consecutive indices, one of them with a text of
\* SourceLines
RoundTripChunks ==
    { [j \in 1..Len(c) |-> Seg(c[j].index,
                               IF j = k THEN t ELSE c[j].original_text)] :
        c \in CodecChunks, k \in 1..(MaxIdx + 1), t \in SourceLines }

CodecInit ==
    /\ RestIdle
    /\ BookIdle
    /\ DocIdle
    /\ ChunkIdle
    /\ ExtractIdle
    /\ FileIdle
    /\ pText = <<>>
    /\ pChunk \in RoundTripChunks
    /\ pResult = <<>>
    /\ pPc = "build"

\* chunk_text = build_chunk_text(chunk); translated = translate_fn(...)
\* with a translate_fn that returns its first argument
CodecBuild ==
    /\ pPc = "build"
    /\ pText' = BuildChunkText(pChunk)
    /\ pPc' = "call"
    /\ UNCHANGED <<pChunk, pResult, chunkVars, extractVars, fileVars, bookVars,
                   docVars, restVars>>

CodecNext == CodecBuild \/ ParseCall

SpecCodec == CodecInit /\ [][CodecNext]_vars

\* C19: decoding a chunk's own encoded text gives every segment index of
\* the chunk exactly that segment's source text, also for segments whose
\* text spans several lines.
C19_CodecRoundTrip ==
    pPc = "returned" /\ pText = BuildChunkText(pChunk) =>
        /\ DOMAIN pResult = {pChunk[j].index : j \in 1..Len(pChunk)}
        /\ \A j \in 1..Len(pChunk) :
              pResult[pChunk[j].index] = pChunk[j].original_text


-----------------------------------------------------------------------------
(* parse_translated_chunk applied to outputs assembled from whole lines.   *)

\* the lines a translator output is assembled from: marker lines with and
\* without text, with a leading zero, a line of text, a blank line and a
\* marker behind a blank
OutputLines ==
    { <<"[", "0", "]", " ", "a">>, <<"[", "1", "]">>,
      <<"[", "0", "1", "]", "b">>, <<"b">>, <<>>, <<" ", "[", "0", "]">> }

LinedTexts ==
    {JoinLines(ls) : ls \in UNION {[1..n -> OutputLines] : n \in 0..MaxPieces}}

LinesInit ==
    /\ RestIdle
    /\ BookIdle
    /\ DocIdle
    /\ ChunkIdle
    /\ ExtractIdle
    /\ FileIdle
    /\ pText \in LinedTexts
    /\ pChunk \in CodecChunks
    /\ pResult = <<>>
    /\ pPc = "call"

SpecLines == LinesInit /\ [][ParseNext]_vars

-----------------------------------------------------------------------------
(* Claims about parse_translated_chunk (SpecParse).                        *)

ClaimLines == SplitLines(Strip(pText))

\* tier 1 applies: every expected index heads some marker line
Tier1Applies ==
    \A k \in ExpectedIndices(pChunk) :
        \E i \in 1..Len(ClaimLines) :
            MarkerMatch(ClaimLines[i]).ok /\ MarkerMatch(ClaimLines[i]).index = k

\* a line without its marker prefix
Unmarked(line) == IF MarkerMatch(line).ok THEN MarkerMatch(line).rest ELSE line

\* tier 2 applies: as many non-blank unmarked lines as segments
Tier2Applies ==
    Cardinality({i \in 1..Len(ClaimLines) :
                    \E j \in 1..Len(Unmarked(ClaimLines[i])) :
                        Unmarked(ClaimLines[i])[j] \notin Whitespace})
        = Len(pChunk)

Tier1Result ==
    [k \in ExpectedIndices(pChunk) |-> MarkerParse(ClaimLines)[k]]

Tier2Result ==
    [k \in ExpectedIndices(pChunk) |->
        Strip(CleanedNonEmpty(ClaimLines)[k - pChunk[1].index + 1])]

\* C7: the three tiers are applied in strict priority: the marker result
\* whenever every expected index was recovered (extra lines or not), else the
\* in-order zip when the non-empty unmarked line count equals the segment
\* count, and the proportional split only when both fail.
C7_TierPriority ==
    pPc = "returned" =>
        /\ Tier1Applies => pResult = Tier1Result
        /\ (~Tier1Applies /\ Tier2Applies) => pResult = Tier2Result
        /\ (~Tier1Applies /\ ~Tier2Applies) =>
                pResult = Proportional(pText, pChunk)

\* tiers 1 and 2 both apply and disagree; the marker result was returned
C7_Witness ==
    /\ pPc = "returned"
    /\ Tier1Applies
    /\ Tier2Applies
    /\ Tier1Result # Tier2Result
    /\ pResult = Tier1Result

\* the lines of the output that begin with a marker
MarkerLines == {i \in 1..Len(ClaimLines) : MarkerMatch(ClaimLines[i]).ok}

\* the last line of the entry that the marker line i starts: the line
\* before the next marker line, or the last line of the output
EntryEnd(i) ==
    IF \E j \in MarkerLines : j > i
    THEN Min({j \in MarkerLines : j > i}) - 1
    ELSE Len(ClaimLines)

\* the text behind the marker of line i and the lines after it up to
\* EntryEnd(i), joined by line breaks and trimmed
EntryText(i) ==
    Strip(JoinLines(<<MarkerMatch(ClaimLines[i]).rest>>
                      \o SubSeq(ClaimLines, i + 1, EntryEnd(i))))

\* the marker line whose entry index k ends up with: the last one for k
EntryLine(k) ==
    CHOOSE i \in MarkerLines :
        /\ MarkerMatch(ClaimLines[i]).index = k
        /\ \A j \in MarkerLines : MarkerMatch(ClaimLines[j]).index = k => j <= i

\* C21: a line that begins with [n] starts the entry of index n, the lines
\* without marker that follow are appended to it, joined by line breaks, up
\* to the next marker line; when every expected index was recovered the
\* mapping holds exactly the expected indices, each with its trimmed entry,
\* and the entries of all other indices are discarded.
C21_MarkerEntries ==
    pPc = "returned" /\ Tier1Applies =>
        /\ DOMAIN pResult = ExpectedIndices(pChunk)
        /\ \A k \in ExpectedIndices(pChunk) :
              pResult[k] = EntryText(EntryLine(k))

\* an entry of two lines was returned and the entry of a foreign index
\* was discarded
C21_Witness ==
    /\ pPc = "returned"
    /\ Tier1Applies
    /\ \E i \in MarkerLines :
          /\ MarkerMatch(ClaimLines[i]).index \in ExpectedIndices(pChunk)
          /\ EntryEnd(i) > i
          /\ pResult[MarkerMatch(ClaimLines[i]).index]
                = MarkerMatch(ClaimLines[i]).rest \o <<NL>> \o ClaimLines[i + 1]
          /\ Len(ClaimLines[i + 1]) > 0
    /\ \E i \in MarkerLines :
          /\ MarkerMatch(ClaimLines[i]).index \notin ExpectedIndices(pChunk)
          /\ Len(EntryText(i)) > 0
    /\ DOMAIN pResult = ExpectedIndices(pChunk)

\* the trimmed output, its length L and the slice length a = L div n
FullText == Strip(pText)
SliceLen == Len(FullText) \div Len(pChunk)

\* the slice of the i-th segment of the chunk (i = 1..n) before trimming:
\* characters (i-1)*a+1 .. i*a, the last slice running to the end
SliceOf(i) ==
    SubSeq(FullText, (i - 1) * SliceLen + 1,
           IF i < Len(pChunk) THEN i * SliceLen ELSE Len(FullText))

\* C22: in the proportional fallback the i-th segment of the chunk gets
\* the trimmed slice [i*a, (i+1)*a) of the trimmed output, a = L div n, and
\* the last segment the slice [(n-1)*a, L); the slices in order make up the
\* whole output, and for L < n all slices but the last are empty.
C22_ProportionalSlices ==
    pPc = "returned" /\ ~Tier1Applies /\ ~Tier2Applies =>
        /\ \A i \in 1..Len(pChunk) :
              pResult[pChunk[i].index] = Strip(SliceOf(i))
        /\ Flatten([i \in 1..Len(pChunk) |-> SliceOf(i)]) = FullText
        /\ Len(FullText) < Len(pChunk) =>
              \A i \in 1..(Len(pChunk) - 1) : pResult[pChunk[i].index] = <<>>

\* an output whose length is no multiple of the segment count was split:
\* the last segment got more characters than the others
C22_Witness ==
    /\ pPc = "returned"
    /\ ~Tier1Applies
    /\ ~Tier2Applies
    /\ Len(pChunk) >= 2
    /\ SliceLen >= 1
    /\ pResult = Proportional(pText, pChunk)
    /\ Len(pResult[pChunk[1].index]) = SliceLen
    /\ Len(pResult[pChunk[Len(pChunk)].index]) > SliceLen


-----------------------------------------------------------------------------
(* chunk_segments applied to bounded inputs.                               *)

\* a source text of n characters
TextOfLen(n) == [j \in 1..n |-> "a"]

\* segment lists as extract_segments returns them: indices 0..n-1 in order,
\* every source text non-empty
SegmentListsOfLen(n) ==
    { [i \in 1..n |-> Seg(i - 1, TextOfLen(lens[i]))] :
        lens \in [1..n -> 1..MaxSegLen] }

SegmentLists == UNION { SegmentListsOfLen(n) : n \in 0..MaxSegs }

ChunkInit ==
    /\ RestIdle
    /\ BookIdle
    /\ DocIdle
    /\ ParseIdle
    /\ ExtractIdle
    /\ FileIdle
    /\ cSegments \in SegmentLists
    /\ cMaxChars \in 1..MaxBudget
    /\ cChunks = <<>>
    /\ cPc = "call"

\* chunks = chunk_segments(segments, max_chars)
ChunkCall ==
    /\ cPc = "call"
    /\ cChunks' = ChunkSegments(cSegments, cMaxChars)
    /\ cPc' = "returned"
    /\ UNCHANGED <<cSegments, cMaxChars, parseVars, extractVars, fileVars, bookVars,
                   docVars, restVars>>

ChunkNext == ChunkCall

SpecChunk == ChunkInit /\ [][ChunkNext]_vars

-----------------------------------------------------------------------------
(* Claims about chunk_segments (SpecChunk).                                *)

RECURSIVE Concat(_)
Concat(chunks) ==
    IF Len(chunks) = 0 THEN <<>> ELSE chunks[1] \o Concat(Tail(chunks))

RECURSIVE TotalLen(_)
TotalLen(chunk) ==
    IF Len(chunk) = 0 THEN 0
    ELSE Len(chunk[1].original_text) + TotalLen(Tail(chunk))

\* C2: for every segment list and max_chars > 0 the chunks are all non-empty
\* and their concatenation in order is exactly the input list (nothing lost,
\* duplicated or reordered); the empty list gives no chunk.
C2_ChunkCompleteness ==
    cPc = "returned" =>
        /\ \A c \in 1..Len(cChunks) : Len(cChunks[c]) > 0
        /\ Concat(cChunks) = cSegments
        /\ (cSegments = <<>> => cChunks = <<>>)

\* a list of at least three segments was split into several chunks
C2_Witness ==
    /\ cPc = "returned"
    /\ Len(cSegments) >= 3
    /\ Len(cChunks) >= 2
    /\ \E c \in 1..Len(cChunks) : Len(cChunks[c]) >= 2
    /\ Concat(cChunks) = cSegments

\* C3: a chunk's total source length is at most max_chars unless the chunk
\* holds exactly one segment; so a segment longer than max_chars is alone in
\* its chunk, whatever precedes or follows it.
C3_ChunkBudget ==
    cPc = "returned" =>
        \A c \in 1..Len(cChunks) :
            /\ Len(cChunks[c]) = 1 \/ TotalLen(cChunks[c]) <= cMaxChars
            /\ \A i \in 1..Len(cChunks[c]) :
                   Len(cChunks[c][i].original_text) > cMaxChars
                       => Len(cChunks[c]) = 1

\* an oversized segment with segments before and after it sits alone
C3_Witness ==
    /\ cPc = "returned"
    /\ \E c \in 2..(Len(cChunks) - 1) :
           /\ Len(cChunks[c]) = 1
           /\ Len(cChunks[c][1].original_text) > cMaxChars
           /\ TotalLen(cChunks[c - 1]) < cMaxChars

\* the segment at place i of chunk c would not fit into what the chunk it
\* met held: the whole chunk before for i = 1, the segments before it in
\* its own chunk otherwise
Overflows(c, i) ==
    LET met == IF i = 1 THEN cChunks[c - 1] ELSE SubSeq(cChunks[c], 1, i - 1)
    IN  TotalLen(met) + Len(cChunks[c][i].original_text) > cMaxChars

\* C23: chunk_segments is greedy from left to right: a segment starts a new
\* chunk exactly when the chunk it meets is non-empty and would exceed
\* max_chars with it; so every chunk but the last is maximal, its total
\* length plus the length of the next chunk's first segment exceeds
\* max_chars.
C23_GreedyMaximalChunks ==
    cPc = "returned" =>
        /\ Concat(cChunks) = cSegments
        /\ \A c \in 1..Len(cChunks) : \A i \in 1..Len(cChunks[c]) :
              (c > 1 \/ i > 1) => ((i = 1) <=> Overflows(c, i))
        /\ \A c \in 1..(Len(cChunks) - 1) :
              TotalLen(cChunks[c])
                + Len(cChunks[c + 1][1].original_text) > cMaxChars

\* a chunk of several segments was closed below the budget because the
\* next segment did not fit, and that segment was joined by a later one
C23_Witness ==
    /\ cPc = "returned"
    /\ \E c \in 1..(Len(cChunks) - 1) :
          /\ Len(cChunks[c]) >= 2
          /\ TotalLen(cChunks[c]) < cMaxChars
          /\ Len(cChunks[c + 1]) >= 2
          /\ Overflows(c + 1, 1)
          /\ ~Overflows(c + 1, 2)


-----------------------------------------------------------------------------
(* extract_segments applied to bounded documents.                          *)

\* what a node of an input document can be: a container, a block, a string
\* with text, a blank string, a string that reads like a placeholder
DocKinds ==
    { Element("div", NoAttrs), Element("p", NoAttrs),
      Element("a", [href |-> <<"u">>, id |-> None, class |-> <<>>]),
      TextNode(<<"x">>), TextNode(<<" ">>), TextNode(Placeholder(0)) }

RECURSIVE AncestorsOrSelf(_, _)
AncestorsOrSelf(par, i) ==
    IF i = 0 THEN {0} ELSE {i} \cup AncestorsOrSelf(par, par[i])

\* parent maps of the trees of n nodes under body, nodes numbered in
\* document order
Shapes(n) ==
    { par \in [1..n -> 0..(n - 1)] :
        \A i \in 1..n :
            /\ par[i] < i
            /\ i > 1 => par[i] \in AncestorsOrSelf(par, i - 1) }

RECURSIVE ChildrenOf(_, _, _)
ChildrenOf(par, k, i) ==
    IF i > Len(par) THEN <<>>
    ELSE (IF par[i] = k THEN <<i>> ELSE <<>>) \o ChildrenOf(par, k, i + 1)

MakeTree(par, kinds) ==
    [nodes    |-> [i \in 0..Len(par) |->
                     IF i = 0 THEN Element("body", NoAttrs) ELSE kinds[i]],
     children |-> [i \in 0..Len(par) |-> ChildrenOf(par, i, 1)],
     size     |-> Len(par) + 1]

ExtractInit ==
    /\ RestIdle
    /\ BookIdle
    /\ DocIdle
    /\ ParseIdle
    /\ ChunkIdle
    /\ FileIdle
    /\ \E n \in 0..MaxNodes :
         \E par \in Shapes(n) :
           \E kinds \in [1..n -> DocKinds] :
             /\ \A i \in 1..n : par[i] # 0 => kinds[par[i]].tag # "#text"
             /\ eInput = MakeTree(par, kinds)
    /\ eTree = eInput
    /\ eSnapshot = <<>>
    /\ ePos = 0
    /\ eSegments = <<>>
    /\ eIndex = 0
    /\ ePc = "call"

\* segments = []; index = 0; for elem in list(body.descendants):
ExtractBegin ==
    /\ ePc = "call"
    /\ eSnapshot' = Descendants(eTree, 0)
    /\ ePos' = 1
    /\ eSegments' = <<>>
    /\ eIndex' = 0
    /\ ePc' = "loop"
    /\ UNCHANGED <<eInput, eTree, parseVars, chunkVars, fileVars, bookVars,
                   docVars, restVars>>

\* an iteration that ends in `continue`: not a Tag, not a block tag, a
\* nested block, or no text left after strip()
ExtractSkip ==
    /\ ePc = "loop"
    /\ ePos <= Len(eSnapshot)
    /\ \/ SkipsNode(eTree, eSnapshot[ePos])
       \/ /\ ~SkipsNode(eTree, eSnapshot[ePos])
          /\ \E t \in ExtractTextWithInlineMarkers(eTree, eSnapshot[ePos]) :
                Strip(t) = <<>>
    /\ ePos' = ePos + 1
    /\ UNCHANGED <<eInput, eTree, eSnapshot, eSegments, eIndex, ePc,
                   parseVars, chunkVars, fileVars, bookVars,
                   docVars, restVars>>

\* an iteration that creates a segment
ExtractSegment ==
    /\ ePc = "loop"
    /\ ePos <= Len(eSnapshot)
    /\ ~SkipsNode(eTree, eSnapshot[ePos])
    /\ \E t \in ExtractTextWithInlineMarkers(eTree, eSnapshot[ePos]) :
         /\ Strip(t) # <<>>
         /\ LET st == VisitBlock([tree |-> eTree, segments |-> eSegments,
                                  index |-> eIndex],
                                 eSnapshot[ePos], Strip(t))
            IN  /\ eTree' = st.tree
                /\ eSegments' = st.segments
                /\ eIndex' = st.index
    /\ ePos' = ePos + 1
    /\ UNCHANGED <<eInput, eSnapshot, ePc, parseVars, chunkVars, fileVars, bookVars,
                   docVars, restVars>>

\* return segments
ExtractReturn ==
    /\ ePc = "loop"
    /\ ePos > Len(eSnapshot)
    /\ ePc' = "returned"
    /\ UNCHANGED <<eInput, eTree, eSnapshot, ePos, eSegments, eIndex,
                   parseVars, chunkVars, fileVars, bookVars,
                   docVars, restVars>>

ExtractNext == ExtractBegin \/ ExtractSkip \/ ExtractSegment \/ ExtractReturn

SpecExtract == ExtractInit /\ [][ExtractNext]_vars


-----------------------------------------------------------------------------
(* Claims about extract_segments (SpecExtract).                            *)

\* the nodes of a tree that hang under body
Attached(tree) ==
    {Descendants(tree, 0)[i] : i \in 1..Len(Descendants(tree, 0))}

\* text holds the token {{SEG:n}}
HasToken(text, n) ==
    \E i \in 1..Len(text) :
        /\ i + Len(Placeholder(n)) - 1 <= Len(text)
        /\ SubSeq(text, i, i + Len(Placeholder(n)) - 1) = Placeholder(n)

\* the strings under body that hold the token {{SEG:n}}
TokenNodes(tree, n) ==
    {d \in Attached(tree) :
        tree.nodes[d].tag = "#text" /\ HasToken(tree.nodes[d].text, n)}

\* the indices that appear in placeholder tokens of the tree
TokenIndices(tree) == {n \in 0..tree.size : TokenNodes(tree, n) # {}}

SegmentIndices == {eSegments[i].index : i \in 1..Len(eSegments)}

\* every index has exactly one placeholder, the only child of its anchor
PlaceholdersMatchSegments ==
    /\ TokenIndices(eTree) = SegmentIndices
    /\ \A i \in 1..Len(eSegments) :
          /\ Cardinality(TokenNodes(eTree, eSegments[i].index)) = 1
          /\ \E d \in TokenNodes(eTree, eSegments[i].index) :
                eTree.children[eSegments[i].element] = <<d>>

\* C8 as stated: after extract_segments on any document the placeholder
\* indices in the tree are exactly the segment indices, each in exactly one
\* placeholder, located in its segment's anchor.
C8_Original ==
    ePc = "returned" => PlaceholdersMatchSegments

\* no string of the input that is still under body reads like a placeholder
NoStrayToken ==
    \A d \in Attached(eTree) :
        d < eInput.size => \A n \in 0..eTree.size :
                                ~HasToken(eTree.nodes[d].text, n)

\* C8 (amended): after extract_segments on a document whose text outside
\* the extracted blocks holds no {{SEG:n}} token, the placeholder indices in
\* the tree are exactly the segment indices, each in exactly one placeholder,
\* located in its segment's anchor.
C8_PlaceholderCoverage ==
    (ePc = "returned" /\ NoStrayToken) => PlaceholdersMatchSegments

\* two segments were extracted and their placeholders are in place
C8_Witness ==
    /\ ePc = "returned"
    /\ NoStrayToken
    /\ Len(eSegments) = 2
    /\ PlaceholdersMatchSegments

\* the minimal translatable blocks of the input that have text
Qualifying ==
    {n \in 1..(eInput.size - 1) :
        /\ eInput.nodes[n].tag \in BlockTags
        /\ \A i \in 1..Len(Descendants(eInput, n)) :
              eInput.nodes[Descendants(eInput, n)[i]].tag \notin BlockTags
        /\ \E t \in ExtractTextWithInlineMarkers(eInput, n) : Strip(t) # <<>>}

\* C9: exactly one segment for each block-tagged node without block-tagged
\* descendant whose extracted text is non-empty after trimming; no segment
\* and no placeholder for any other node: a block wrapping a block is never
\* a segment and a minimal block with empty text is left as it was.
C9_OneSegmentPerMinimalBlock ==
    ePc = "returned" =>
        /\ {eSegments[i].element : i \in 1..Len(eSegments)} = Qualifying
        /\ \A i, j \in 1..Len(eSegments) :
              eSegments[i].element = eSegments[j].element => i = j
        /\ \A n \in 0..(eInput.size - 1) :
              n \notin Qualifying =>
                  /\ eTree.children[n] = eInput.children[n]
                  /\ eTree.nodes[n] = eInput.nodes[n]
        /\ \A n \in Qualifying :
              /\ Len(eTree.children[n]) = 1
              /\ eTree.children[n][1] >= eInput.size

\* a block wrapping a block with text, next to a minimal block without text
C9_Witness ==
    /\ ePc = "returned"
    /\ Len(eSegments) = 1
    /\ \E n \in 1..(eInput.size - 1) :
          /\ eInput.nodes[n].tag \in BlockTags
          /\ HasNestedBlock(eInput, n)
    /\ \E n \in 1..(eInput.size - 1) :
          /\ eInput.nodes[n].tag \in BlockTags
          /\ ~HasNestedBlock(eInput, n)
          /\ n \notin Qualifying

\* position of a node in the document order of the input
PreOrderPos(n) ==
    CHOOSE k \in 1..Len(Descendants(eInput, 0)) : Descendants(eInput, 0)[k] = n

\* C10: the indices are exactly 0..n-1 without gap or repeat, in document
\* pre-order of the anchors; a node detached while an earlier segment was
\* extracted never yields a segment.
C10_DenseOrderedIndices ==
    ePc = "returned" =>
        /\ \A i \in 1..Len(eSegments) : eSegments[i].index = i - 1
        /\ \A i, j \in 1..Len(eSegments) :
              (eSegments[i].index < eSegments[j].index)
                 <=> (PreOrderPos(eSegments[i].element)
                        < PreOrderPos(eSegments[j].element))
        /\ \A i \in 1..Len(eSegments) :
              eSegments[i].element \in Attached(eTree)

\* two segments, and nodes of the input were detached on the way
C10_Witness ==
    /\ ePc = "returned"
    /\ Len(eSegments) >= 2
    /\ \E n \in 1..(eInput.size - 1) : n \notin Attached(eTree)


-----------------------------------------------------------------------------
(* translate_and_inject for one file: the chunk loop around translate_fn.  *)

\* the value of translated_text before a chunk covering the segment is done
\* source texts of the segments of a file
SourceTexts == { <<"a">>, <<"b", "b">> }

\* the segment lists extract_segments can hand over: indices 0..n-1 in
\* order, translated_text not set
FileSegmentListsOfLen(n) ==
    { [i \in 1..n |-> [index |-> i - 1, original_text |-> texts[i],
                       translated_text |-> None]] :
        texts \in [1..n -> SourceTexts] }

\* translate_xhtml calls translate_and_inject only with segments
FileSegmentLists == UNION { FileSegmentListsOfLen(n) : n \in 1..MaxSegs }

\* what translate_fn may return for a chunk text: the text itself, a text
\* without markers or line structure, nothing
TranslateOutputs(chunk_text) == { chunk_text, <<"z">>, <<>> }

\* seg.translated_text = mapping.get(seg.index, seg.original_text)
MappingGet(mapping, seg) ==
    IF seg.index \in DOMAIN mapping THEN mapping[seg.index]
    ELSE seg.original_text

\* the segments after the translations of one chunk were written to them
WriteChunk(segments, chunk, mapping) ==
    [i \in 1..Len(segments) |->
        IF \E j \in 1..Len(chunk) : chunk[j].index = segments[i].index
        THEN [segments[i] EXCEPT !.translated_text = MappingGet(mapping, segments[i])]
        ELSE segments[i]]

\* mutation: the translation is carried forward as context
NextContextTranslated(chunk_text, translated) == translated

\* prev_context = chunk_text
NextContext(chunk_text, translated) == chunk_text

\* the chunk as the codec sees it
CodecChunk(chunk) ==
    [j \in 1..Len(chunk) |-> Seg(chunk[j].index, chunk[j].original_text)]

FileInit ==
    /\ RestIdle
    /\ BookIdle
    /\ DocIdle
    /\ ParseIdle
    /\ ChunkIdle
    /\ ExtractIdle
    /\ fSegments \in FileSegmentLists
    /\ fMaxChars \in 1..MaxBudget
    /\ fChunks = <<>>
    /\ fPos = 0
    /\ fPrev = <<>>
    /\ fCalls = <<>>
    /\ fPc = "call"

\* chunks = chunk_segments(segments, max_chars); prev_context = ""
FileBegin ==
    /\ fPc = "call"
    /\ fChunks' = ChunkSegments(fSegments, fMaxChars)
    /\ fPos' = 1
    /\ fPrev' = <<>>
    /\ fPc' = "loop"
    /\ UNCHANGED <<fSegments, fMaxChars, fCalls,
                   parseVars, chunkVars, extractVars, bookVars,
                   docVars, restVars>>

\* chunk_text = build_chunk_text(chunk); translate_fn(chunk_text,
\* prev_context) is entered
FileTranslateCall ==
    /\ fPc = "loop"
    /\ fPos <= Len(fChunks)
    /\ fCalls' = Append(fCalls,
                        [text    |-> BuildChunkText(CodecChunk(fChunks[fPos])),
                         context |-> fPrev,
                         chunk   |-> fPos])
    /\ fPc' = "in_translate"
    /\ UNCHANGED <<fSegments, fMaxChars, fChunks, fPos, fPrev,
                   parseVars, chunkVars, extractVars, bookVars,
                   docVars, restVars>>

\* translate_fn returns; the output is decoded and written to the segments
\* of the chunk; prev_context = chunk_text
FileTranslateReturn ==
    /\ fPc = "in_translate"
    /\ LET chunk_text == BuildChunkText(CodecChunk(fChunks[fPos]))
       IN  \E translated \in TranslateOutputs(chunk_text) :
             /\ fSegments' =
                  WriteChunk(fSegments, fChunks[fPos],
                             ParseTranslatedChunk(translated,
                                                  CodecChunk(fChunks[fPos])))
             /\ fPrev' = NextContext(chunk_text, translated)
    /\ fPos' = fPos + 1
    /\ fPc' = "loop"
    /\ UNCHANGED <<fMaxChars, fChunks, fCalls,
                   parseVars, chunkVars, extractVars, bookVars,
                   docVars, restVars>>

\* translate_fn raises: the exception leaves translate_and_inject
FileTranslateRaise ==
    /\ fPc = "in_translate"
    /\ fPc' = "raised"
    /\ UNCHANGED <<fSegments, fMaxChars, fChunks, fPos, fPrev, fCalls,
                   parseVars, chunkVars, extractVars, bookVars,
                   docVars, restVars>>

\* the loop is over: _inject_translations(segments)
FileInject ==
    /\ fPc = "loop"
    /\ fPos > Len(fChunks)
    /\ fPc' = "returned"
    /\ UNCHANGED <<fSegments, fMaxChars, fChunks, fPos, fPrev, fCalls,
                   parseVars, chunkVars, extractVars, bookVars,
                   docVars, restVars>>

FileNext ==
    \/ FileBegin
    \/ FileTranslateCall
    \/ FileTranslateReturn
    \/ FileTranslateRaise
    \/ FileInject

SpecFile == FileInit /\ [][FileNext]_vars

-----------------------------------------------------------------------------
(* Claims about translate_and_inject (SpecFile).                           *)

\* the encoded source text of chunk k of the file
EncodedChunk(k) == BuildChunkText(CodecChunk(ChunkSegments(fSegments, fMaxChars)[k]))

\* the segments of chunk k carry a translated_text
ChunkWritten(k) ==
    \A i \in 1..Len(fSegments) :
        (\E j \in 1..Len(fChunks[k]) : fChunks[k][j].index = fSegments[i].index)
            => fSegments[i].translated_text # None

\* C6: within one file translate_fn is called once per chunk, in ascending
\* chunk order, each call only after the previous call's output was decoded
\* and written to its segments; the context is "" for the first chunk and
\* the encoded source text of chunk k-1, never its translation, for chunk k.
C6_SequentialCallsWithSourceContext ==
    /\ \A k \in 1..Len(fCalls) :
          /\ fCalls[k].chunk = k
          /\ fCalls[k].text = EncodedChunk(k)
          /\ fCalls[k].context = IF k = 1 THEN <<>> ELSE EncodedChunk(k - 1)
          /\ \A k2 \in 1..(k - 1) : ChunkWritten(k2)
    /\ fPc = "in_translate" => Len(fCalls) = fPos
    /\ fPc = "loop" => Len(fCalls) = fPos - 1
    /\ fPc = "returned" =>
          Len(fCalls) = Len(ChunkSegments(fSegments, fMaxChars))

\* the call for a third chunk is in flight after two translations that are
\* not the source text
C6_Witness ==
    /\ fPc = "in_translate"
    /\ Len(fCalls) = 3
    /\ fCalls[3].context = EncodedChunk(2)
    /\ \A i \in 1..Len(fSegments) :
          fSegments[i].index < fChunks[3][1].index
              => fSegments[i].translated_text = <<>>


-----------------------------------------------------------------------------
(* translate_xhtml on one document: extract_segments, the chunk loop of    *)
(* translate_and_inject with a given translate_fn, _inject_translations.   *)

\* the default of max_chars
DefaultMaxChars == 8000

\* a document is written as terms: a node and the terms of its children
T(text) == [node |-> TextNode(text), kids |-> <<>>]
E(tag, attrs, kids) == [node |-> Element(tag, attrs), kids |-> kids]

Bold == <<"b", "o", "l", "d">>
WithClass(cls) == [NoAttrs EXCEPT !.class = cls]

\* the children a block is given: strings, elements with a preserve-inline
\* class (a span, another tag, with a second class, empty, with a text of
\* two lines), a span without class, a hyperlink
InlineTerms ==
    { T(<<"x">>), T(<<" ">>),
      E("span", WithClass(<<Bold>>), <<T(<<"y">>)>>),
      E("b", WithClass(<<Bold>>), <<T(<<"y">>)>>),
      E("span", WithClass(<<Bold, <<"k">>>>), <<T(<<"y">>)>>),
      E("span", WithClass(<<Bold>>), <<>>),
      E("span", WithClass(<<Bold>>), <<T(<<"y", NL, "y">>)>>),
      E("span", NoAttrs, <<T(<<"y">>)>>),
      E("a", [NoAttrs EXCEPT !.href = <<"u">>], <<T(<<"x">>)>>) }

\* one block with inline children
InlineDocs ==
    { <<E("p", NoAttrs, kids)>> :
        kids \in UNION {[1..n -> InlineTerms] : n \in 1..MaxInline} }

\* the characters of attribute values: a letter and the ones the marker
\* syntax and the percent-encoding use
LinkChars == {"u", "|", "=", "%", "<", ">", " "}

LinkValues == UNION {[1..n -> LinkChars] : n \in 0..MaxValLen}

\* hyperlinks: any href or none, an id or none, no, one or two classes,
\* an inner text
LinkTerms ==
    { E("a", [href |-> href, id |-> id, class |-> class],
        IF text = <<>> THEN <<>> ELSE <<T(text)>>) :
        href \in LinkValues \cup {None},
        id \in {None, <<"=", "%">>},
        class \in {<<>>, << <<"k">>, <<"m">> >>},
        text \in {<<>>, <<"x">>, <<" ", "|", "|", ">", ">">>} }

\* one block with a hyperlink as its only child
LinkDocs == { <<E("p", NoAttrs, <<a>>)>> : a \in LinkTerms }

\* what stands directly under body: blocks, a blank block, containers
\* with text of their own around a block, text
TopTerms ==
    { E("p", NoAttrs, <<T(<<"x">>)>>),
      E("p", NoAttrs, <<T(<<" ">>)>>),
      E("div", [NoAttrs EXCEPT !.id = <<"i">>],
        <<T(<<"s">>), E("p", NoAttrs, <<T(<<"x">>)>>)>>),
      E("blockquote", NoAttrs,
        <<E("p", NoAttrs, <<T(<<"x">>)>>), T(<<"s">>)>>),
      E("div", NoAttrs, <<T(<<"s">>)>>),
      T(<<"t">>) }

ContainerDocs == UNION {[1..n -> TopTerms] : n \in 1..MaxBlocks}

RECURSIVE AddTerms(_, _, _)
\* the tree with the terms added below parent, nodes numbered in document
\* order
AddTerms(tree, parent, terms) ==
    IF Len(terms) = 0 THEN tree
    ELSE AddTerms(AddTerms(AppendChild(tree, parent, terms[1].node),
                           tree.size, terms[1].kids),
                  parent, Tail(terms))

\* the tree under body of a document
DocTree(terms) == AddTerms(MakeTree(<<>>, <<>>), 0, terms)

DocInputs ==
    {DocTree(d) : d \in InlineDocs \cup LinkDocs \cup ContainerDocs}

\* the translate_fn arguments: one that returns the chunk text, one that
\* returns a text without markers, one that returns nothing
TranslateFns == {"echo", "fixed", "empty"}

\* translate_fn(chunk_text, prev_context)
Translate(fn, chunk_text) ==
    CASE fn = "echo" -> chunk_text
      [] fn = "fixed" -> <<"z">>
      [] fn = "empty" -> <<>>

RECURSIVE TranslateChunks(_, _, _, _)
\* the loop over the chunks from chunk k on
TranslateChunks(segments, chunks, k, fn) ==
    IF k > Len(chunks) THEN segments
    ELSE TranslateChunks(
             WriteChunk(segments, chunks[k],
                        ParseTranslatedChunk(
                            Translate(fn, BuildChunkText(CodecChunk(chunks[k]))),
                            CodecChunk(chunks[k]))),
             chunks, k + 1, fn)

\* the segments extract_segments returned, as TextSegment objects
Untranslated(segments) ==
    [i \in 1..Len(segments) |->
        [index           |-> segments[i].index,
         element         |-> segments[i].element,
         original_text   |-> segments[i].original_text,
         translated_text |-> None]]

DocInit ==
    /\ RestIdle
    /\ BookIdle
    /\ ParseIdle
    /\ ChunkIdle
    /\ FileIdle
    /\ eInput \in DocInputs
    /\ eTree = eInput
    /\ eSnapshot = <<>>
    /\ ePos = 0
    /\ eSegments = <<>>
    /\ eIndex = 0
    /\ ePc = "call"
    /\ dFn = "none"
    /\ dSegments = <<>>
    /\ dPc = "extract"

\* if not segments: the document is returned without translation
DocReturnEmpty ==
    /\ dPc = "extract"
    /\ ePc = "returned"
    /\ eSegments = <<>>
    /\ dPc' = "returned"
    /\ UNCHANGED <<dFn, dSegments, parseVars, chunkVars, extractVars,
                   fileVars, bookVars, restVars>>

\* translate_and_inject: the chunk loop
DocTranslate ==
    /\ dPc = "extract"
    /\ ePc = "returned"
    /\ eSegments # <<>>
    /\ \E fn \in TranslateFns :
          /\ dFn' = fn
          /\ dSegments' =
                TranslateChunks(Untranslated(eSegments),
                                ChunkSegments(Untranslated(eSegments),
                                              DefaultMaxChars),
                                1, fn)
    /\ dPc' = "translated"
    /\ UNCHANGED <<parseVars, chunkVars, extractVars, fileVars, bookVars, restVars>>

\* translate_and_inject: _inject_translations(segments)
DocInject ==
    /\ dPc = "translated"
    /\ eTree' = InjectTranslations(eTree, dSegments)
    /\ dPc' = "injected"
    /\ UNCHANGED <<eInput, eSnapshot, ePos, eSegments, eIndex, ePc,
                   dFn, dSegments, parseVars, chunkVars, fileVars, bookVars,
                   restVars>>

DocNext ==
    \/ ExtractBegin
    \/ ExtractSkip
    \/ ExtractSegment
    \/ ExtractReturn
    \/ DocReturnEmpty
    \/ DocTranslate
    \/ DocInject

SpecDoc == DocInit /\ [][DocNext]_vars

-----------------------------------------------------------------------------
(* Claims about extraction, translation and reinjection (SpecDoc).         *)

RECURSIVE RenderAll(_, _)
\* str(node): the markup of a node, as a sequence of tokens and characters
Render(tree, n) ==
    IF tree.nodes[n].tag = "#text" THEN tree.nodes[n].text
    ELSE LET a == tree.nodes[n].attrs
         IN  <<"[open]", tree.nodes[n].tag>>
               \o (IF a.href = None THEN <<>>
                   ELSE <<"[href]">> \o a.href \o <<"[/href]">>)
               \o (IF a.id = None THEN <<>>
                   ELSE <<"[id]">> \o a.id \o <<"[/id]">>)
               \o (IF a.class = <<>> THEN <<>>
                   ELSE <<"[class]">> \o JoinWith(a.class, <<" ">>)
                                     \o <<"[/class]">>)
               \o <<"[end]">>
               \o RenderAll(tree, tree.children[n])
               \o <<"[close]", tree.nodes[n].tag>>
RenderAll(tree, ids) ==
    IF Len(ids) = 0 THEN <<>>
    ELSE Render(tree, ids[1]) \o RenderAll(tree, Tail(ids))

\* the anchors of the segments extracted so far
Anchors == {eSegments[i].element : i \in 1..Len(eSegments)}

\* child is an element that is written as an inline marker
ProducesMarker(tree, child) ==
    /\ tree.nodes[child].tag # "#text"
    /\ \/ tree.nodes[child].tag = "a"
       \/ MarkerClasses(tree, child) # {}

HasMarkerChild(tree, elem) ==
    \E i \in 1..Len(tree.children[elem]) :
        ProducesMarker(tree, tree.children[elem][i])

\* C11: for any block with children that are written as inline markers,
\* extraction, translation by a translate_fn that returns the chunk text
\* and reinjection give a subtree whose markup is identical to the
\* original block's.
C11_RoundTripIdentity ==
    dPc = "injected" /\ dFn = "echo" =>
        \A elem \in Anchors :
            HasMarkerChild(eInput, elem) =>
                Render(eTree, elem) = Render(eInput, elem)

\* the hyperlinks among the children of elem, in order
LinkChildren(tree, elem) ==
    SelectSeq(tree.children[elem], LAMBDA c : tree.nodes[c].tag = "a")

\* what the claim compares of a hyperlink
LinkView(tree, c) ==
    [href  |-> tree.nodes[c].attrs.href,
     id    |-> tree.nodes[c].attrs.id,
     class |-> tree.nodes[c].attrs.class,
     text  |-> GetText(tree, c)]

\* an earlier child of elem is an element with a preserve-inline class and
\* no text: its marker <<cls:>> has no payload, so the marker pattern takes
\* what follows as the payload
EmptyMarkerBefore(tree, elem, c) ==
    \E i, j \in 1..Len(tree.children[elem]) :
        /\ i < j
        /\ tree.children[elem][j] = c
        /\ tree.nodes[tree.children[elem][i]].tag \notin {"#text", "a"}
        /\ MarkerClasses(tree, tree.children[elem][i]) # {}
        /\ GetText(tree, tree.children[elem][i]) = <<>>

\* the k-th hyperlink of the anchor is the same before and after
SameLink(elem, k) ==
    /\ k <= Len(LinkChildren(eTree, elem))
    /\ LinkView(eTree, LinkChildren(eTree, elem)[k])
         = LinkView(eInput, LinkChildren(eInput, elem)[k])

\* C12: any hyperlink child, with any href, id, class and inner text
\* (also with | = < > % and spaces in them), is rebuilt from the link
\* marker the extractor wrote as a hyperlink with identical href, id,
\* class and text.
C12_LinkRoundTrip ==
    dPc = "injected" /\ dFn = "echo" =>
        \A elem \in Anchors :
            \A k \in 1..Len(LinkChildren(eInput, elem)) : SameLink(elem, k)

\* the hyperlinks that are rebuilt as they were: href and id absent or not
\* empty and no earlier marker without payload in the block
LinkValuesRoundTrip ==
    dPc = "injected" /\ dFn = "echo" =>
        \A elem \in Anchors :
            \A k \in 1..Len(LinkChildren(eInput, elem)) :
                LET c == LinkChildren(eInput, elem)[k]
                IN  /\ eInput.nodes[c].attrs.href # <<>>
                    /\ eInput.nodes[c].attrs.id # <<>>
                    /\ ~EmptyMarkerBefore(eInput, elem, c)
                    => SameLink(elem, k)

\* the nodes of the input below the anchors
InsideAnchors ==
    UNION { {Descendants(eInput, a)[i] :
                i \in 1..Len(Descendants(eInput, a))} : a \in Anchors }

\* C13: extraction and reinjection change only the children of the
\* anchors: every node of the input that is neither an anchor nor inside
\* one keeps its tag, attributes, text and children, an anchor keeps its
\* tag, attributes and place, and after reinjection each anchor holds
\* what its own segment's text is rebuilt to, the segment's source text
\* being the text extracted from that very node.
C13_OnlyAnchorsChange ==
    /\ \A n \in 0..(eInput.size - 1) :
          /\ eTree.nodes[n] = eInput.nodes[n]
          /\ n \notin Anchors \cup InsideAnchors =>
                eTree.children[n] = eInput.children[n]
    /\ \A i \in 1..Len(eSegments) :
          eSegments[i].original_text \in
              {Strip(t) : t \in ExtractTextWithInlineMarkers(
                                    eInput, eSegments[i].element)}
    /\ dPc = "injected" =>
          \A i \in 1..Len(dSegments) :
              LET elem == dSegments[i].element
              IN  /\ \A j \in 1..Len(eTree.children[elem]) :
                        eTree.children[elem][j] >= eInput.size
                  /\ RenderAll(eTree, eTree.children[elem])
                       = LET alone == InjectOne(eInput, elem,
                                                InjectText(dSegments[i]))
                         IN  RenderAll(alone, alone.children[elem])

\* two segments have been reinjected next to a container's own text
C13_Witness ==
    /\ dPc = "injected"
    /\ dFn = "fixed"
    /\ Len(dSegments) >= 2
    /\ \E n \in 1..(eInput.size - 1) :
          /\ eInput.nodes[n].tag = "div"
          /\ \E j \in 1..Len(eTree.children[n]) :
                eTree.nodes[eTree.children[n][j]].tag = "#text"
          /\ \E j \in 1..Len(eTree.children[n]) :
                eTree.children[n][j] \in Anchors

\* the text the claim has reinjected
ClaimedInjectText(seg) ==
    IF seg.translated_text # None THEN seg.translated_text
    ELSE seg.original_text

\* C20: at reinjection the text put into a segment's anchor is the
\* segment's translated_text whenever translated_text is present; the
\* source text is used only when translated_text was never set.
C20_TranslatedTextUsed ==
    dPc = "injected" =>
        \A i \in 1..Len(dSegments) :
            LET elem    == dSegments[i].element
                claimed == InjectOne(eInput, elem,
                                     ClaimedInjectText(dSegments[i]))
            IN  RenderAll(eTree, eTree.children[elem])
                  = RenderAll(claimed, claimed.children[elem])

-----------------------------------------------------------------------------
(* translate_xhtml on a document with ruby groupings: simplify_dom, then   *)
(* extract_segments.                                                       *)

Tcy == <<"t", "c", "y">>

\* the children a block is given: a string, a ruby with one reading, with
\* brackets around the reading, with a reading after each of two base
\* texts, without reading, and a span of a class that is unwrapped
RubyTerms ==
    { T(<<"x">>),
      E("ruby", NoAttrs, <<T(<<"b">>), E("rt", NoAttrs, <<T(<<"r">>)>>)>>),
      E("ruby", NoAttrs,
        <<T(<<"b">>), E("rp", NoAttrs, <<T(<<"(">>)>>),
          E("rt", NoAttrs, <<T(<<"r">>)>>), E("rp", NoAttrs, <<T(<<")">>)>>)>>),
      E("ruby", NoAttrs,
        <<T(<<"b">>), E("rt", NoAttrs, <<T(<<"r">>)>>),
          T(<<"c">>), E("rt", NoAttrs, <<T(<<"s">>)>>)>>),
      E("ruby", NoAttrs, <<T(<<"b">>)>>),
      E("span", WithClass(<<Tcy>>), <<T(<<"c">>)>>) }

\* one block with ruby groupings among its children
RubyDocs ==
    { <<E("p", NoAttrs, kids)>> :
        kids \in UNION {[1..n -> RubyTerms] : n \in 1..MaxInline} }

SimplifyInit ==
    /\ RestIdle
    /\ BookIdle
    /\ DocIdle
    /\ ParseIdle
    /\ ChunkIdle
    /\ FileIdle
    /\ \E d \in RubyDocs : eInput = DocTree(d)
    /\ eTree = eInput
    /\ eSnapshot = <<>>
    /\ ePos = 0
    /\ eSegments = <<>>
    /\ eIndex = 0
    /\ ePc = "simplify"

\* simplify_dom(body)
Simplify ==
    /\ ePc = "simplify"
    /\ eTree' = SimplifyDom(eTree)
    /\ ePc' = "call"
    /\ UNCHANGED <<eInput, eSnapshot, ePos, eSegments, eIndex,
                   parseVars, chunkVars, fileVars, bookVars, docVars,
                   restVars>>

SimplifyNext ==
    \/ Simplify
    \/ ExtractBegin
    \/ ExtractSkip
    \/ ExtractSegment
    \/ ExtractReturn

SpecSimplify == SimplifyInit /\ [][SimplifyNext]_vars

-----------------------------------------------------------------------------
(* Claims about simplify_dom (SpecSimplify).                               *)

RubyTags == {"ruby", "rt", "rp"}

\* the nodes under body
Under(tree) == {Descendants(tree, 0)[i] : i \in 1..Len(Descendants(tree, 0))}

RECURSIVE BaseTexts(_, _)
\* the text below the nodes ids without what stands in an rt or rp
BaseTexts(tree, ids) ==
    IF Len(ids) = 0 THEN <<>>
    ELSE (IF tree.nodes[ids[1]].tag = "#text" THEN tree.nodes[ids[1]].text
          ELSE IF tree.nodes[ids[1]].tag \in {"rt", "rp"} THEN <<>>
          ELSE BaseTexts(tree, tree.children[ids[1]]))
            \o BaseTexts(tree, Tail(ids))

\* the document has a ruby with more than one rt
SeveralReadings ==
    \E n \in Under(eInput) :
        /\ eInput.nodes[n].tag = "ruby"
        /\ Len(FindAll(eInput, n, "rt")) > 1

\* C24: after simplify_dom no ruby, rt or rp node is left under body, the
\* base text stands where it stood, in its order, and no text of a reading
\* or bracket is part of the text extracted for a segment.
C24_NoReadingLeft ==
    ePc \notin {"idle", "simplify"} =>
        /\ ePc = "call" =>
              /\ \A n \in Under(eTree) : eTree.nodes[n].tag \notin RubyTags
              /\ GetText(eTree, 0) = BaseTexts(eInput, eInput.children[0])
        /\ \A i \in 1..Len(eSegments) :
              eSegments[i].original_text
                = Strip(BaseTexts(eInput, eInput.children[eSegments[i].element]))

\* the same for the documents whose rubies have at most one rt each
SingleReadingRemoved == SeveralReadings \/ C24_NoReadingLeft

\* a ruby with brackets and one reading is gone and its base text was
\* extracted
SingleReadingWitness ==
    /\ ePc = "returned"
    /\ ~SeveralReadings
    /\ \E n \in Under(eInput) : eInput.nodes[n].tag = "rp"
    /\ Len(eSegments) = 1
    /\ eSegments[1].original_text = <<"b", "x">>

-----------------------------------------------------------------------------
(* translate_epub: the calling thread, the pool and _process_one per file. *)

\* the content files, in xhtml_paths order
Files == 1..NumFiles

\* the files a pool thread or the sequential loop is working on
Running == {f \in Files : bPc[f] \in {"translate", "write"}}

\* the work items still in the pool's queue
Pending == {f \in Files : bPc[f] = "pending"}

OtherIdle == ParseIdle /\ ChunkIdle /\ ExtractIdle /\ FileIdle /\ DocIdle
otherVars == <<parseVars, chunkVars, extractVars, fileVars, docVars>>

BookInit ==
    /\ RestIdle
    /\ OtherIdle
    /\ bWorkers \in 1..MaxWorkers
    /\ \E n \in 0..MaxFileChunks : bChunks = [f \in Files |-> n]
    /\ bPc = [f \in Files |-> "pending"]
    /\ bDone = [f \in Files |-> 0]
    /\ bDisk = [f \in Files |-> "original"]
    /\ bMain = "call"
    /\ bPos = 0
    /\ bCollected = {}
    /\ bLogged = {}
    /\ bBody \in [Files -> BOOLEAN]
    /\ bWarned = {}
    /\ bAccess = [t \in Files |-> {}]
    /\ bHeld = [f \in Files |-> 0]

\* if max_workers <= 1: the sequential loop is entered
BookSequential ==
    /\ bMain = "call"
    /\ bWorkers <= 1
    /\ bMain' = "sequential"
    /\ bPos' = 1
    /\ UNCHANGED <<bWorkers, bChunks, bBody, bPc, bDone, bDisk, bCollected,
                   bLogged, bWarned, bAccess, bHeld, otherVars, restVars>>

\* else: every file is submitted to the pool; as_completed is entered
BookSubmit ==
    /\ bMain = "call"
    /\ bWorkers > 1
    /\ bMain' = "as_completed"
    /\ UNCHANGED <<bWorkers, bChunks, bBody, bPc, bDone, bDisk, bPos,
                   bCollected, bLogged, bWarned, bAccess, bHeld, otherVars,
                   restVars>>

\* where _process_one goes once translate_xhtml has been entered: into the
\* chunk loop, or straight to the write for a file without segments and for
\* a file without body, whose document translate_xhtml returns as it is
Entered(f) == IF ~bBody[f] \/ bChunks[f] = 0 THEN "write" ELSE "translate"

\* logging.warning names the path of a file without body
Warned(f) == IF bBody[f] THEN bWarned ELSE bWarned \cup {f}

\* extract_segments leaves a placeholder in the block of every segment,
\* counted here by the chunks the segments make up
Extracted(f) == IF bBody[f] THEN bChunks[f] ELSE 0

\* mutation: _inject_translations is not called after the chunk loop
HeldAfterChunkNoInject(f) == bHeld[f]

\* the chunk loop leaves the placeholders where they are;
\* _inject_translations after the last chunk replaces them all
HeldAfterChunk(f) == IF bDone[f] + 1 = bChunks[f] THEN 0 ELSE bHeld[f]

TreeShared(f) == 1

\* the tree the _process_one call for f works on: the soup translate_xhtml
\* builds from the file's content, a local of that call
TreeOf(f) == f

\* the call for f reads or writes its tree
Uses(f) == [bAccess EXCEPT ![TreeOf(f)] = @ \cup {f}]

\* the sequential loop calls _process_one(xhtml_path)
SeqStart ==
    /\ bMain = "sequential"
    /\ bPos <= NumFiles
    /\ bPc[bPos] = "pending"
    /\ bPc' = [bPc EXCEPT ![bPos] = Entered(bPos)]
    /\ bWarned' = Warned(bPos)
    /\ bAccess' = Uses(bPos)
    /\ bHeld' = [bHeld EXCEPT ![bPos] = Extracted(bPos)]
    /\ UNCHANGED <<bWorkers, bChunks, bBody, bDone, bDisk, bMain, bPos,
                   bCollected, bLogged, otherVars, restVars>>

PoolStartUnbounded(f) ==
    /\ bMain = "as_completed"
    /\ f \in Pending
    /\ \A g \in Pending : f <= g
    /\ bPc' = [bPc EXCEPT ![f] = Entered(f)]
    /\ bWarned' = Warned(f)
    /\ bAccess' = Uses(f)
    /\ bHeld' = [bHeld EXCEPT ![f] = Extracted(f)]
    /\ UNCHANGED <<bWorkers, bChunks, bBody, bDone, bDisk, bMain, bPos,
                   bCollected, bLogged, otherVars, restVars>>

\* a pool thread takes the oldest queued work item
PoolStart(f) ==
    /\ bMain = "as_completed"
    /\ f \in Pending
    /\ \A g \in Pending : f <= g
    /\ Cardinality(Running) < bWorkers
    /\ bPc' = [bPc EXCEPT ![f] = Entered(f)]
    /\ bWarned' = Warned(f)
    /\ bAccess' = Uses(f)
    /\ bHeld' = [bHeld EXCEPT ![f] = Extracted(f)]
    /\ UNCHANGED <<bWorkers, bChunks, bBody, bDone, bDisk, bMain, bPos,
                   bCollected, bLogged, otherVars, restVars>>

\* translate_fn returns for the next chunk of f and its output is written
\* to the segments; after the last chunk the translations are injected
TranslateChunk(f) ==
    /\ bPc[f] = "translate"
    /\ bDone' = [bDone EXCEPT ![f] = bDone[f] + 1]
    /\ bPc' = [bPc EXCEPT ![f] = IF bDone[f] + 1 = bChunks[f]
                                 THEN "write" ELSE "translate"]
    /\ bAccess' = Uses(f)
    /\ bHeld' = [bHeld EXCEPT ![f] = HeldAfterChunk(f)]
    /\ UNCHANGED <<bWorkers, bChunks, bBody, bDisk, bMain, bPos, bCollected,
                   bLogged, bWarned, otherVars, restVars>>

\* translate_fn raises for the next chunk of f: the exception leaves
\* translate_xhtml and _process_one
TranslateRaise(f) ==
    /\ bPc[f] = "translate"
    /\ bPc' = [bPc EXCEPT ![f] = "raised"]
    /\ UNCHANGED <<bWorkers, bChunks, bBody, bDone, bDisk, bMain, bPos,
                   bCollected, bLogged, bWarned, bAccess, bHeld, otherVars,
                   restVars>>

\* translate_xhtml has returned its rendering of the tree: the file is
\* overwritten with it
WriteFile(f) ==
    /\ bPc[f] = "write"
    /\ bDisk' = [bDisk EXCEPT ![f] = "translated"]
    /\ bPc' = [bPc EXCEPT ![f] = "done"]
    /\ bAccess' = Uses(f)
    /\ UNCHANGED <<bWorkers, bChunks, bBody, bDone, bMain, bPos, bCollected,
                   bLogged, bWarned, bHeld, otherVars, restVars>>

\* _process_one returned: the sequential loop goes on with the next file
SeqAdvance ==
    /\ bMain = "sequential"
    /\ bPos <= NumFiles
    /\ bPc[bPos] = "done"
    /\ bPos' = bPos + 1
    /\ UNCHANGED <<bWorkers, bChunks, bBody, bPc, bDone, bDisk, bMain,
                   bCollected, bLogged, bWarned, bAccess, bHeld, otherVars,
                   restVars>>

\* _process_one raised in the sequential loop: nothing catches it, the
\* exception leaves translate_epub
SeqRaise ==
    /\ bMain = "sequential"
    /\ bPos <= NumFiles
    /\ bPc[bPos] = "raised"
    /\ bMain' = "raised"
    /\ UNCHANGED <<bWorkers, bChunks, bBody, bPc, bDone, bDisk, bPos,
                   bCollected, bLogged, bWarned, bAccess, bHeld, otherVars,
                   restVars>>

\* as_completed yields a finished future; future.result() raising is
\* caught and logged with the path
Collect(f) ==
    /\ bMain = "as_completed"
    /\ f \notin bCollected
    /\ bPc[f] \in {"done", "raised"}
    /\ bCollected' = bCollected \cup {f}
    /\ bLogged' = IF bPc[f] = "raised" THEN bLogged \cup {f} ELSE bLogged
    /\ UNCHANGED <<bWorkers, bChunks, bBody, bPc, bDone, bDisk, bMain, bPos,
                   bWarned, bAccess, bHeld, otherVars, restVars>>

BookReturnEarly ==
    /\ \/ bMain = "sequential" /\ bPos > NumFiles
       \/ bMain = "as_completed" /\ bCollected # {}
    /\ bMain' = "returned"
    /\ UNCHANGED <<bWorkers, bChunks, bBody, bPc, bDone, bDisk, bPos,
                   bCollected, bLogged, bWarned, bAccess, bHeld, otherVars,
                   restVars>>

\* the loops are over and the pool has shut down: return output_dir
BookReturn ==
    /\ \/ bMain = "sequential" /\ bPos > NumFiles
       \/ bMain = "as_completed" /\ bCollected = Files
    /\ bMain' = "returned"
    /\ UNCHANGED <<bWorkers, bChunks, bBody, bPc, bDone, bDisk, bPos,
                   bCollected, bLogged, bWarned, bAccess, bHeld, otherVars,
                   restVars>>

BookNext ==
    \/ BookSequential
    \/ BookSubmit
    \/ SeqStart
    \/ SeqAdvance
    \/ SeqRaise
    \/ BookReturn
    \/ \E f \in Files :
          \/ PoolStart(f)
          \/ TranslateChunk(f)
          \/ TranslateRaise(f)
          \/ WriteFile(f)
          \/ Collect(f)

SpecBook == BookInit /\ [][BookNext]_vars

\* every pool thread and the calling thread keep running, and every call of
\* translate_fn returns or raises
SpecBookFair == BookInit /\ [][BookNext]_vars /\ WF_vars(BookNext)

-----------------------------------------------------------------------------
(* Claims about translate_epub (SpecBook).                                 *)

\* translate_epub has returned or raised
BookEnded == bMain \in {"returned", "raised"}

\* C4: for any max_workers a failure while translating one content file
\* does not stop the others: every other file is still processed to
\* completion and written (with three files and file 2 failing, files 1 and
\* 3 end up translated).
C4_FailureIsolation ==
    BookEnded =>
        \A f \in Files : bPc[f] # "raised" => bDisk[f] = "translated"

\* what a caller can learn of the outcome: the files written and the paths
\* logged as failed
Succeeded == {f \in Files : bDisk[f] = "translated"}
Failed == bLogged

\* C5: when a translate_epub run ends the caller has the set of files
\* translated successfully and the set of files that failed, and every
\* content file is in exactly one of the two.
C5_OutcomeSets ==
    BookEnded =>
        \A f \in Files : (f \in Succeeded) # (f \in Failed)

\* the files whose _process_one call has ended
Ended == {f \in Files : bPc[f] \in {"done", "raised"}}

\* C14: if translate_fn raises on chunk k of a file, translate_fn is not
\* called for a later chunk of that file, the chunks translated before k
\* stay translated, and the error reaches translate_epub as a failure of
\* that one file only: the run still returns, the path is logged and every
\* other file is processed to its end.
C14_RaiseEndsOneFile ==
    /\ \A f \in Files : bPc[f] = "raised" => bDone[f] < bChunks[f]
    /\ BookEnded =>
          /\ bMain = "returned"
          /\ \A f \in Files : IF bPc[f] = "raised"
                               THEN f \in bLogged
                               ELSE bPc[f] = "done"

\* C15: a content file without body is a failure of that file: it is
\* reported (by an error or a warning naming its path) and it is not
\* written as a translated file; the other files are unaffected.
C15_NoBodyIsFailure ==
    BookEnded =>
        \A f \in Files :
            ~bBody[f] => (f \in bLogged \cup bWarned /\ f \notin Succeeded)

\* C16: with max_workers <= 1 the files are processed one after another in
\* list order, file i+1 starting only after file i has ended; with
\* max_workers > 1 never more than max_workers files are being processed
\* at the same time.
C16_BoundedConcurrency ==
    /\ bWorkers <= 1 =>
          /\ Cardinality(Running) <= 1
          /\ \A f, g \in Files :
                f < g /\ bPc[g] # "pending" => f \in Ended
    /\ bWorkers > 1 => Cardinality(Running) <= bWorkers

\* the pool is full and a file waits in its queue
C16_Witness ==
    /\ bWorkers > 1
    /\ Cardinality(Running) = bWorkers
    /\ Pending # {}

\* C17: with max_workers > 1 and every translate_fn call returning or
\* raising, translate_epub eventually returns, and when it has returned
\* every file's task has ended, written or with its failure logged: none
\* is running and none was never started.
C17_ParallelRunEnds ==
    /\ (bWorkers > 1) => <>(bMain = "returned")
    /\ [](bWorkers > 1 /\ bMain = "returned" =>
            \A f \in Files :
                \/ bPc[f] = "done" /\ f \in Succeeded
                \/ bPc[f] = "raised" /\ f \in bLogged)

\* a parallel run has returned with a written file and a failed one
C17_Witness ==
    /\ bWorkers > 1
    /\ bMain = "returned"
    /\ \E f, g \in Files : bPc[f] = "done" /\ bPc[g] = "raised"

C25_WrittenAfterReinjection ==
    \A f \in Files :
        /\ bDisk[f] = "translated" => bPc[f] = "done" /\ bHeld[f] = 0
        /\ bPc[f] = "write" => bHeld[f] = 0
        /\ bPc[f] = "raised" => bDisk[f] = "original"

\* one file of two chunks is written, another has raised after its first
\* chunk with its placeholders still in its tree
C25_Witness ==
    \E f, g \in Files :
        /\ bChunks[f] = 2 /\ bDone[f] = 2 /\ bDisk[f] = "translated"
        /\ bPc[g] = "raised" /\ bDone[g] = 1 /\ bHeld[g] > 0
        /\ bDisk[g] = "original"

-----------------------------------------------------------------------------
(* OpenRouter.generate_content of src/provider.py: the retry loop around   *)
(* the HTTP request.                                                       *)

\* largest retry_count
MaxRetry == 3

\* the pipeline of src/epub.py is not running
CoreIdle == BookIdle /\ OtherIdle

\* how an HTTP attempt can end: the response is there, httpx raises a
\* TimeoutException, httpx raises another HTTPError (raise_for_status, a
\* transport error), or something else is raised (response.json())
Outcomes == {"ok", "timeout", "http_error", "other"}

\* max_attempts = self.config.retry_count + 1
MaxAttempts == oRetryCount + 1

\* mutation: one more attempt is allowed before the error is raised
LastAttemptOneMore(attempt) == attempt > MaxAttempts

\* if attempt >= max_attempts
LastAttempt(attempt) == attempt >= MaxAttempts

ProviderInit ==
    /\ CoreIdle
    /\ TaskIdle
    /\ ExtractDirIdle
    /\ OpfIdle
    /\ RepackIdle
    /\ oRetryCount \in -1..MaxRetry
    /\ oAttempt = 0
    /\ oHistory = <<>>
    /\ oError = "none"
    /\ oPc = "call"

\* for attempt in range(1, max_attempts + 1): the first iteration
ProviderEnter ==
    /\ oPc = "call"
    /\ 1 <= MaxAttempts
    /\ oAttempt' = 1
    /\ oPc' = "post"
    /\ UNCHANGED <<oRetryCount, oHistory, oError, providerRest>>

\* the range is empty: the else branch of the loop raises RuntimeError
ProviderNoAttempt ==
    /\ oPc = "call"
    /\ 1 > MaxAttempts
    /\ oError' = "RuntimeError"
    /\ oPc' = "raised"
    /\ UNCHANGED <<oRetryCount, oAttempt, oHistory, providerRest>>

\* client.post, raise_for_status and response.json() pass: break
ProviderPostOk ==
    /\ oPc = "post"
    /\ oHistory' = Append(oHistory, "ok")
    /\ oPc' = "parse"
    /\ UNCHANGED <<oRetryCount, oAttempt, oError, providerRest>>

\* except httpx.TimeoutException / except httpx.HTTPError: raise on the
\* last attempt, sleep otherwise
ProviderPostFails(outcome) ==
    /\ oPc = "post"
    /\ outcome \in {"timeout", "http_error"}
    /\ oHistory' = Append(oHistory, outcome)
    /\ IF LastAttempt(oAttempt)
       THEN /\ oError' = IF outcome = "timeout" THEN "TimeoutError"
                         ELSE "ConnectionError"
            /\ oPc' = "raised"
       ELSE /\ oError' = oError
            /\ oPc' = "sleep"
    /\ UNCHANGED <<oRetryCount, oAttempt, providerRest>>

\* an exception that is no httpx.HTTPError leaves the function as it is
ProviderPostRaises ==
    /\ oPc = "post"
    /\ oHistory' = Append(oHistory, "other")
    /\ oError' = "other"
    /\ oPc' = "raised"
    /\ UNCHANGED <<oRetryCount, oAttempt, providerRest>>

\* time.sleep(retry_backoff_seconds * attempt) is over: the next iteration
ProviderRetry ==
    /\ oPc = "sleep"
    /\ oAttempt' = oAttempt + 1
    /\ oPc' = "post"
    /\ UNCHANGED <<oRetryCount, oHistory, oError, providerRest>>

\* the response holds a non-blank text: return content
ProviderReturn ==
    /\ oPc = "parse"
    /\ oPc' = "returned"
    /\ UNCHANGED <<oRetryCount, oAttempt, oHistory, oError, providerRest>>

\* the response holds no usable text: ValueError
ProviderBadResponse ==
    /\ oPc = "parse"
    /\ oError' = "ValueError"
    /\ oPc' = "raised"
    /\ UNCHANGED <<oRetryCount, oAttempt, oHistory, providerRest>>

ProviderNext ==
    \/ ProviderEnter
    \/ ProviderNoAttempt
    \/ ProviderPostOk
    \/ \E outcome \in Outcomes : ProviderPostFails(outcome)
    \/ ProviderPostRaises
    \/ ProviderRetry
    \/ ProviderReturn
    \/ ProviderBadResponse

SpecProvider == ProviderInit /\ [][ProviderNext]_vars

-----------------------------------------------------------------------------
(* Claims about OpenRouter.generate_content (SpecProvider).                *)

\* the outcome of the attempt made last
LastOutcome == oHistory[Len(oHistory)]

\* C26: generate_content makes at most retry_count + 1 HTTP attempts, one
\* more only after a timeout or HTTP error of the one before, none after
\* one that succeeded; when the last allowed attempt fails it raises
\* TimeoutError after a timeout and ConnectionError after another HTTP
\* error; it returns a result only after a successful attempt.
C26_BoundedRetries ==
    /\ Len(oHistory) <= (IF oRetryCount >= 0 THEN oRetryCount + 1 ELSE 0)
    /\ \A i \in 1..(Len(oHistory) - 1) :
          oHistory[i] \in {"timeout", "http_error"}
    /\ (oPc = "raised" /\ Len(oHistory) = oRetryCount + 1 /\ oHistory # <<>>) =>
          /\ LastOutcome = "timeout" => oError = "TimeoutError"
          /\ LastOutcome = "http_error" => oError = "ConnectionError"
    /\ oPc = "returned" => (oHistory # <<>> /\ LastOutcome = "ok")

\* every allowed attempt was made, failures of both kinds among them, and
\* the last one timed out
C26_Witness ==
    /\ oRetryCount = 2
    /\ Len(oHistory) = 3
    /\ oHistory[1] = "http_error"
    /\ oHistory[3] = "timeout"
    /\ oPc = "raised"
    /\ oError = "TimeoutError"

-----------------------------------------------------------------------------
(* The dashboard tasks of src/web/app.py: create_task, the executor and    *)
(* the two _run_..._task functions, which differ in the work they call.    *)

\* number of tasks that are started
NumTasks == 3

\* TASK_EXECUTOR = ThreadPoolExecutor(max_workers=2)
ExecutorWorkers == 2

TaskIds == 1..NumTasks

\* _now_iso(): a time stamp
Stamp == <<"t">>

\* the tasks a worker thread of the executor is running
Busy == {t \in TaskIds : tPc[t] \in {"begun", "work", "final"}}

\* TASKS[task_id] = {...} of create_task
NewTask == [status |-> "queued", progress |-> 0, finished_at |-> None]

\* mutation: the final update leaves finished_at out
FinishedNoStamp(task, status) ==
    [task EXCEPT !.status = status,
                 !.progress = IF status = "success" THEN 100 ELSE @]

\* update_task(task_id, status="success", progress=100, ...,
\* finished_at=_now_iso()) and update_task(task_id, status="error", ...,
\* finished_at=_now_iso())
Finished(task, status) ==
    [task EXCEPT !.status = status,
                 !.progress = IF status = "success" THEN 100 ELSE @,
                 !.finished_at = Stamp]

TaskInit ==
    /\ CoreIdle
    /\ ProviderIdle
    /\ ExtractDirIdle
    /\ OpfIdle
    /\ RepackIdle
    /\ tTasks = <<>>
    /\ tQueue = <<>>
    /\ tPc = [t \in TaskIds |-> "none"]
    /\ tSeen = <<>>

\* a request handler calls create_task
TaskCreate(t) ==
    /\ tPc[t] = "none"
    /\ tTasks' = [u \in (DOMAIN tTasks) \cup {t} |->
                     IF u = t THEN NewTask ELSE tTasks[u]]
    /\ tPc' = [tPc EXCEPT ![t] = "created"]
    /\ UNCHANGED <<tQueue, tSeen, taskRest>>

\* the handler goes on: TASK_EXECUTOR.submit(_run_..._task, task_id, request)
TaskSubmit(t) ==
    /\ tPc[t] = "created"
    /\ tQueue' = Append(tQueue, t)
    /\ tPc' = [tPc EXCEPT ![t] = "submitted"]
    /\ UNCHANGED <<tTasks, tSeen, taskRest>>

\* a free worker thread takes the oldest work item and enters _run_..._task
TaskStart(t) ==
    /\ tQueue # <<>>
    /\ t = Head(tQueue)
    /\ Cardinality(Busy) < ExecutorWorkers
    /\ tQueue' = Tail(tQueue)
    /\ tPc' = [tPc EXCEPT ![t] = "begun"]
    /\ UNCHANGED <<tTasks, tSeen, taskRest>>

\* update_task(task_id, status="running", progress=5)
TaskRunning(t) ==
    /\ tPc[t] = "begun"
    /\ tTasks' = [tTasks EXCEPT ![t].status = "running", ![t].progress = 5]
    /\ tPc' = [tPc EXCEPT ![t] = "work"]
    /\ UNCHANGED <<tQueue, tSeen, taskRest>>

\* progress_logger of the translation task: update_task(task_id,
\* progress=progress_value), a value between 10 and 95
TaskProgress(t) ==
    /\ tPc[t] = "work"
    /\ tTasks[t].progress < 95
    /\ tTasks' = [tTasks EXCEPT ![t].progress = 95]
    /\ UNCHANGED <<tQueue, tPc, tSeen, taskRest>>

\* the work returned: the update with status="success"
TaskSucceed(t) ==
    /\ tPc[t] = "work"
    /\ tTasks' = [tTasks EXCEPT ![t] = Finished(tTasks[t], "success")]
    /\ tPc' = [tPc EXCEPT ![t] = "final"]
    /\ UNCHANGED <<tQueue, tSeen, taskRest>>

\* the work raised: except Exception, the update with status="error"
TaskFail(t) ==
    /\ tPc[t] = "work"
    /\ tTasks' = [tTasks EXCEPT ![t] = Finished(tTasks[t], "error")]
    /\ tPc' = [tPc EXCEPT ![t] = "final"]
    /\ UNCHANGED <<tQueue, tSeen, taskRest>>

\* the last append_task_log is done and the function returns: the worker
\* thread is free again
TaskEnd(t) ==
    /\ tPc[t] = "final"
    /\ tPc' = [tPc EXCEPT ![t] = "ended"]
    /\ UNCHANGED <<tTasks, tQueue, tSeen, taskRest>>

\* GET /tasks/{task_id}: get_task returns a copy of the task, or None
\* for an id that TASKS does not hold
TaskRead(t) ==
    /\ tSeen' = IF t \in DOMAIN tTasks THEN <<tTasks[t]>> ELSE <<>>
    /\ UNCHANGED <<tTasks, tQueue, tPc, taskRest>>

TaskNext ==
    \E t \in TaskIds :
        \/ TaskCreate(t)
        \/ TaskSubmit(t)
        \/ TaskStart(t)
        \/ TaskRunning(t)
        \/ TaskProgress(t)
        \/ TaskSucceed(t)
        \/ TaskFail(t)
        \/ TaskEnd(t)
        \/ TaskRead(t)

SpecTasks == TaskInit /\ [][TaskNext]_vars

-----------------------------------------------------------------------------
(* Claims about the dashboard tasks (SpecTasks).                           *)

FinalStatuses == {"success", "error"}

\* the changes of status a task may make
StatusMoves ==
    { <<"queued", "running">>, <<"running", "success">>,
      <<"running", "error">> }

\* finished_at is set exactly in a final status
StampedWhenFinal(task) ==
    (task.finished_at # None) <=> (task.status \in FinalStatuses)

\* C27: a task's status only moves queued -> running -> success or
\* queued -> running -> error and never changes once it is success or
\* error, whatever workers and readers do in between; finished_at is set
\* exactly when the status is success or error, in TASKS and in every copy
\* a reader gets.
C27_TaskStatusMoves ==
    /\ [][\A t \in DOMAIN tTasks :
            /\ t \in DOMAIN tTasks'
            /\ tTasks'[t].status # tTasks[t].status =>
                  <<tTasks[t].status, tTasks'[t].status>> \in StatusMoves]_vars
    /\ [](\A t \in DOMAIN tTasks : StampedWhenFinal(tTasks[t]))
    /\ [](tSeen # <<>> => StampedWhenFinal(tSeen[1]))

\* one task has succeeded and one has failed while a third still waits,
\* and a reader holds the copy of a finished task
C27_Witness ==
    /\ \E t, u, w \in DOMAIN tTasks :
          /\ tTasks[t].status = "success"
          /\ tTasks[u].status = "error"
          /\ tTasks[w].status = "queued"
    /\ tSeen # <<>>
    /\ tSeen[1].status \in FinalStatuses
    /\ tSeen[1].finished_at = Stamp

-----------------------------------------------------------------------------
(* extract_epub: the choice of the output directory, for calls that the    *)
(* worker threads of an executor make for EPUB files of one stem.          *)

\* most directories of the stem that are there before the calls
MaxExisting == 2

\* the calls: one per worker thread of TASK_EXECUTOR
Calls == 1..ExecutorWorkers

\* a directory under extracted_epubs: 0 is <stem>, k > 0 is <stem>(k)
NoDir == -1

ExtractDirInit ==
    /\ CoreIdle
    /\ ProviderIdle
    /\ TaskIdle
    /\ OpfIdle
    /\ RepackIdle
    /\ xDirs \in {0..(n - 1) : n \in 0..MaxExisting}
                 \cup {{k} : k \in 1..MaxExisting}
    /\ xAtCall = [c \in Calls |-> {}]
    /\ xCounter = [c \in Calls |-> 1]
    /\ xOutputDir = [c \in Calls |-> NoDir]
    /\ xPc = [c \in Calls |-> "call"]

\* extract_epub is called: counter = 1; output_dir = .../<stem>
ExtractDirBegin(c) ==
    /\ xPc[c] = "call"
    /\ xAtCall' = [xAtCall EXCEPT ![c] = xDirs]
    /\ xCounter' = [xCounter EXCEPT ![c] = 1]
    /\ xOutputDir' = [xOutputDir EXCEPT ![c] = 0]
    /\ xPc' = [xPc EXCEPT ![c] = "check"]
    /\ UNCHANGED <<xDirs, extractDirRest>>

\* if output_dir.exists(): the loop is entered, else output_dir is kept
ExtractDirCheck(c) ==
    /\ xPc[c] = "check"
    /\ xPc' = [xPc EXCEPT ![c] = IF 0 \in xDirs THEN "probe" ELSE "mkdir"]
    /\ UNCHANGED <<xDirs, xAtCall, xCounter, xOutputDir, extractDirRest>>

\* one iteration of the loop: <stem>(counter) is taken if it does not
\* exist, else counter advances
ExtractDirProbe(c) ==
    /\ xPc[c] = "probe"
    /\ IF xCounter[c] \notin xDirs
       THEN /\ xOutputDir' = [xOutputDir EXCEPT ![c] = xCounter[c]]
            /\ xPc' = [xPc EXCEPT ![c] = "mkdir"]
            /\ xCounter' = xCounter
       ELSE /\ xCounter' = [xCounter EXCEPT ![c] = xCounter[c] + 1]
            /\ UNCHANGED <<xOutputDir, xPc>>
    /\ UNCHANGED <<xDirs, xAtCall, extractDirRest>>

\* output_dir.mkdir(parents=True, exist_ok=True): no error when the
\* directory is there already
ExtractDirMkdir(c) ==
    /\ xPc[c] = "mkdir"
    /\ xDirs' = xDirs \cup {xOutputDir[c]}
    /\ xPc' = [xPc EXCEPT ![c] = "extract"]
    /\ UNCHANGED <<xAtCall, xCounter, xOutputDir, extractDirRest>>

\* the members of the archive are written below output_dir; return data
ExtractDirReturn(c) ==
    /\ xPc[c] = "extract"
    /\ xPc' = [xPc EXCEPT ![c] = "returned"]
    /\ UNCHANGED <<xDirs, xAtCall, xCounter, xOutputDir, extractDirRest>>

ExtractDirNext ==
    \E c \in Calls :
        \/ ExtractDirBegin(c)
        \/ ExtractDirCheck(c)
        \/ ExtractDirProbe(c)
        \/ ExtractDirMkdir(c)
        \/ ExtractDirReturn(c)

SpecExtractDir == ExtractDirInit /\ [][ExtractDirNext]_vars

-----------------------------------------------------------------------------
(* Claims about extract_epub (SpecExtractDir).                             *)

\* the calls that extract or have extracted into their output_dir
Extracting == {c \in Calls : xPc[c] \in {"extract", "returned"}}

\* C28: extract_epub never extracts into a directory that was there when
\* it was called, and every call, also of two that run at the same time for
\* files of one stem, gets an output directory of its own.
C28_OwnOutputDir ==
    /\ \A c \in Extracting : xOutputDir[c] \notin xAtCall[c]
    /\ \A c, d \in Extracting : c # d => xOutputDir[c] # xOutputDir[d]

-----------------------------------------------------------------------------
(* get_xhtml_files_from_opf, and the path list that translate_epub makes   *)
(* of its result.  An item element is a record [id, media_type, href]; it  *)
(* is named by its position in the manifest.  An absent manifest or spine  *)
(* is <<>>, a present one <<its children>>.                                *)

\* most item elements of a manifest
MaxItems == 2

\* most itemref elements of a spine
MaxSpine == 2

\* id attributes of item elements; None: the item has no id
ItemIds == {<<"a">>, <<"b">>, None}

\* idref attributes of itemref elements; None: the itemref has no idref
IdRefs == {<<"a">>, <<"b">>, None}

\* media types of item elements
MediaTypes == {"application/xhtml+xml", "image/jpeg"}

\* the media types media_type_pattern matches
XhtmlMediaTypes == {"application/xhtml+xml", "application/x-dtbook+xml"}

\* the files of the archive that extract_epub has written below opf_dir
DiskFiles == {<<"p">>, <<"q">>}

\* href attributes of item elements; <<>>: no href, or an empty one
Hrefs == DiskFiles \cup {<<>>, <<"g">>}

Items == [id : ItemIds, media_type : MediaTypes, href : Hrefs]

Opfs ==
    [manifest : {<<>>} \cup
                {<<m>> : m \in UNION {[1..n -> Items] : n \in 0..MaxItems}},
     spine : {<<>>} \cup
             {<<s>> : s \in UNION {[1..n -> IdRefs] : n \in 0..MaxSpine}}]

\* manifest.find_all('item', attrs={'media-type': media_type_pattern}):
\* the items of a matching media type, in document order
XhtmlFiles(manifest) ==
    SelectSeq([i \in 1..Len(manifest) |-> i],
              LAMBDA i : manifest[i].media_type \in XhtmlMediaTypes)

\* {item.get('id'): item for item in xhtml_files}: of two items of one id
\* the later one stays
IdToItem(manifest) ==
    LET xs == XhtmlFiles(manifest)
        ids == {manifest[xs[j]].id : j \in 1..Len(xs)}
        last(d) == CHOOSE j \in 1..Len(xs) :
                       /\ manifest[xs[j]].id = d
                       /\ \A k \in (j + 1)..Len(xs) : manifest[xs[k]].id # d
    IN  [d \in ids |-> xs[last(d)]]

\* the loop over idref_order: the item of every idref that has one
FromSpine(manifest, spine) ==
    LET found == SelectSeq(spine,
                           LAMBDA r : r \in DOMAIN IdToItem(manifest))
    IN  [j \in 1..Len(found) |-> IdToItem(manifest)[found[j]]]

\* added_ids after the loop over idref_order
AddedIds(manifest, spine) ==
    {spine[j] : j \in 1..Len(spine)} \cap DOMAIN IdToItem(manifest)

\* the loop over xhtml_files: the items whose id is not in added_ids
FromManifest(manifest, spine) ==
    SelectSeq(XhtmlFiles(manifest),
              LAMBDA i : manifest[i].id \notin AddedIds(manifest, spine))

\* the exception get_xhtml_files_from_opf raises, or "none"
OpfError(opf) ==
    IF opf.manifest = <<>> THEN "NotValidOPFError"
    ELSE IF opf.spine = <<>> THEN "NotValidOPFError"
    ELSE IF XhtmlFiles(opf.manifest[1]) = <<>> THEN "NotValidOPFError"
    ELSE IF \E j \in 1..Len(opf.spine[1]) : opf.spine[1][j] = None
         THEN "KeyError"
    ELSE "none"

\* ordered_items
GetXhtmlFilesFromOpf(opf) ==
    FromSpine(opf.manifest[1], opf.spine[1])
        \o FromManifest(opf.manifest[1], opf.spine[1])

\* translate_epub: the hrefs of the items that have one and whose file
\* exists
XhtmlPaths(manifest, ordered) ==
    LET kept == SelectSeq(ordered,
                          LAMBDA i : /\ manifest[i].href # <<>>
                                     /\ manifest[i].href \in DiskFiles)
    IN  [j \in 1..Len(kept) |-> manifest[kept[j]].href]

OpfInit ==
    /\ CoreIdle
    /\ ProviderIdle
    /\ TaskIdle
    /\ ExtractDirIdle
    /\ RepackIdle
    /\ mOpf \in Opfs
    /\ mOrdered = <<>>
    /\ mPaths = <<>>
    /\ mPos = 0
    /\ mCount = [f \in DiskFiles |-> 0]
    /\ mPc = "call"

\* extract_epub: get_xhtml_files_from_opf raises
OpfRaise ==
    /\ mPc = "call"
    /\ OpfError(mOpf) # "none"
    /\ mPc' = "raised"
    /\ UNCHANGED <<mOpf, mOrdered, mPaths, mPos, mCount, opfRest>>

\* extract_epub: xhtml_files = get_xhtml_files_from_opf(opf_path)
OpfList ==
    /\ mPc = "call"
    /\ OpfError(mOpf) = "none"
    /\ mOrdered' = GetXhtmlFilesFromOpf(mOpf)
    /\ mPc' = "listed"
    /\ UNCHANGED <<mOpf, mPaths, mPos, mCount, opfRest>>

\* translate_epub: the loop that collects xhtml_paths
OpfCollect ==
    /\ mPc = "listed"
    /\ mPaths' = XhtmlPaths(mOpf.manifest[1], mOrdered)
    /\ mPos' = 1
    /\ mPc' = "collected"
    /\ UNCHANGED <<mOpf, mOrdered, mCount, opfRest>>

\* translate_epub: _process_one is called, or submitted, for the next path
OpfProcess ==
    /\ mPc = "collected"
    /\ mPos <= Len(mPaths)
    /\ mCount' = [mCount EXCEPT ![mPaths[mPos]] = @ + 1]
    /\ mPos' = mPos + 1
    /\ UNCHANGED <<mOpf, mOrdered, mPaths, mPc, opfRest>>

\* translate_epub: every path has been handed to _process_one
OpfDone ==
    /\ mPc = "collected"
    /\ mPos > Len(mPaths)
    /\ mPc' = "done"
    /\ UNCHANGED <<mOpf, mOrdered, mPaths, mPos, mCount, opfRest>>

OpfNext ==
    \/ OpfRaise
    \/ OpfList
    \/ OpfCollect
    \/ OpfProcess
    \/ OpfDone

SpecOpf == OpfInit /\ [][OpfNext]_vars

-----------------------------------------------------------------------------
(* Claims about the content-file list (SpecOpf).                           *)

\* the manifest and the spine of an OPF file that has both
Manifest == mOpf.manifest[1]
Spine == mOpf.spine[1]

\* the manifest XHTML items
ContentItems ==
    {i \in 1..Len(Manifest) : Manifest[i].media_type \in XhtmlMediaTypes}

\* the content files: what the manifest XHTML items name and the book holds
ContentFiles == {Manifest[i].href : i \in ContentItems} \cap DiskFiles

\* the item is referenced by the spine
InSpine(i) == \E j \in 1..Len(Spine) : Spine[j] = Manifest[i].id

\* where the spine references the item first
SpinePlace(i) == Min({j \in 1..Len(Spine) : Spine[j] = Manifest[i].id})

\* where the ordered list has the item first
ListPlace(i) == Min({j \in 1..Len(mOrdered) : mOrdered[j] = i})

\* the claimed order puts item i before item k
ComesBefore(i, k) ==
    \/ InSpine(i) /\ ~InSpine(k)
    \/ InSpine(i) /\ InSpine(k) /\ SpinePlace(i) < SpinePlace(k)
    \/ ~InSpine(i) /\ ~InSpine(k) /\ i < k

\* C29: the ordered content-file list holds every manifest XHTML item
\* exactly once, the items the spine references first and in spine order,
\* then the others in manifest order; and translate_epub hands every
\* content file to _process_one exactly once.
C29_EveryContentFileOnce ==
    /\ mPc \in {"listed", "collected", "done"} =>
          /\ \A j \in 1..Len(mOrdered) : mOrdered[j] \in ContentItems
          /\ \A i \in ContentItems :
                Cardinality({j \in 1..Len(mOrdered) : mOrdered[j] = i}) = 1
          /\ \A i, k \in ContentItems :
                ComesBefore(i, k) => ListPlace(i) < ListPlace(k)
    /\ mPc = "done" => \A f \in ContentFiles : mCount[f] = 1

-----------------------------------------------------------------------------
(* repackage_epub.  A path below extracted_dir is the sequence of its      *)
(* names; what the directory holds is a set of records [path, is_file].    *)

\* the paths a book directory may hold, as sorted() orders them: by their
\* names from the first on, a capital letter before a small one
SortedPaths ==
    << [path |-> <<"META-INF">>, is_file |-> FALSE],
       [path |-> <<"META-INF", "container.xml">>, is_file |-> TRUE],
       [path |-> <<"OEBPS">>, is_file |-> FALSE],
       [path |-> <<"OEBPS", "ch.xhtml">>, is_file |-> TRUE],
       [path |-> <<"OEBPS", "log.txt">>, is_file |-> TRUE],
       [path |-> <<"OEBPS", "mimetype">>, is_file |-> TRUE],
       [path |-> <<"log.txt">>, is_file |-> TRUE],
       [path |-> <<"mimetype">>, is_file |-> TRUE] >>

AllPaths == {SortedPaths[j] : j \in 1..Len(SortedPaths)}

\* the directory that holds the path; <<>> is extracted_dir itself
Parent(path) == SubSeq(path, 1, Len(path) - 1)

\* the directories extracted_dir may be: a path is there only with the
\* directory that holds it
BookDirs ==
    {d \in SUBSET AllPaths :
        \A e \in d : \/ Parent(e.path) = <<>>
                     \/ [path |-> Parent(e.path), is_file |-> FALSE] \in d}

\* sorted(extracted_dir.rglob("*"))
SortedRglob(dir) == SelectSeq(SortedPaths, LAMBDA e : e \in dir)

\* file_path.name
Name(path) == path[Len(path)]

\* file_path.relative_to(extracted_dir).as_posix(): the names joined by "/"
RECURSIVE AsPosix(_)
AsPosix(path) ==
    IF Len(path) = 1 THEN path
    ELSE AsPosix(Parent(path)) \o <<"/", Name(path)>>

\* the body of the loop: whether the path is written to the archive
Packed(e) ==
    /\ e.is_file
    /\ Name(e.path) # "mimetype"
    /\ AsPosix(e.path) # <<"log.txt">>

RepackInit ==
    /\ CoreIdle
    /\ ProviderIdle
    /\ TaskIdle
    /\ ExtractDirIdle
    /\ OpfIdle
    /\ rFiles \in BookDirs
    /\ rArchive = <<>>
    /\ rPos = 0
    /\ rPc = "call"

\* if mimetype_path.exists(): zf.write(mimetype_path, "mimetype", ...)
RepackMimetype ==
    /\ rPc = "call"
    /\ rArchive' = IF [path |-> <<"mimetype">>, is_file |-> TRUE] \in rFiles
                   THEN <<(<<"mimetype">>)>>
                   ELSE <<>>
    /\ rPos' = 1
    /\ rPc' = "loop"
    /\ UNCHANGED <<rFiles, repackRest>>

\* one iteration of the loop over the sorted paths
RepackStep ==
    /\ rPc = "loop"
    /\ rPos <= Len(SortedRglob(rFiles))
    /\ LET e == SortedRglob(rFiles)[rPos]
       IN  rArchive' = IF Packed(e)
                       THEN Append(rArchive, AsPosix(e.path))
                       ELSE rArchive
    /\ rPos' = rPos + 1
    /\ UNCHANGED <<rFiles, rPc, repackRest>>

\* return output_path
RepackReturn ==
    /\ rPc = "loop"
    /\ rPos > Len(SortedRglob(rFiles))
    /\ rPc' = "returned"
    /\ UNCHANGED <<rFiles, rArchive, rPos, repackRest>>

RepackNext ==
    \/ RepackMimetype
    \/ RepackStep
    \/ RepackReturn

SpecRepack == RepackInit /\ [][RepackNext]_vars

-----------------------------------------------------------------------------
(* Claims about repackage_epub (SpecRepack).                               *)

\* the files of the directory
FilesOf(dir) == {e.path : e \in {x \in dir : x.is_file}}

\* how often the archive has an entry of the file's name
Entries(path) ==
    Cardinality({j \in 1..Len(rArchive) : rArchive[j] = AsPosix(path)})

\* C30: the archive repackage_epub has written begins with the top-level
\* mimetype file when the directory has one, and holds every file of the
\* directory exactly once, the top-level log.txt alone left out.
C30_EveryFileOnce ==
    rPc = "returned" =>
        /\ <<"mimetype">> \in FilesOf(rFiles) =>
              /\ rArchive # <<>>
              /\ rArchive[1] = <<"mimetype">>
        /\ \A path \in FilesOf(rFiles) :
              Entries(path) = IF path = <<"log.txt">> THEN 0 ELSE 1
        /\ Len(rArchive) = Cardinality(FilesOf(rFiles) \ {<<"log.txt">>})

=============================================================================
